---------------------------- MODULE Spec2Model ----------------------------
(***************************************************************************)
(* A model of the BTC-15M-Oracle trading runtime (jaboofin/btcv25).         *)
(*                                                                         *)
(* The runtime is a set of cooperating components.  Each component has its *)
(* own group of variables and its own specification; a specification moves *)
(* only the variables of the component it is about and leaves the others   *)
(* at their initial values:                                                *)
(*                                                                         *)
(*   SpecOrder    PolymarketClient.place_order, one await per step         *)
(*   SpecOracle   OracleEngine.capture_window_open and its callers         *)
(*   SpecArb      ArbScanner.run: discovery, detection, execution          *)
(*   SpecRisk     RiskManager with the placement and resolution steps      *)
(*   SpecSched    the main loop and the 5m loop: entry windows and cycles   *)
(*                                                                         *)
(* Amounts of money are integers in units of 1/10000 USD (the precision    *)
(* the client rounds a PnL to), prices are in cents, times in seconds.     *)
(***************************************************************************)
EXTENDS Integers, Sequences, FiniteSets, TLC

VARIABLES
    \* ---- PolymarketClient (core/polymarket_client.py) ----
    order_type,        \* config.order_type: "market" or "limit"
    po,                \* the frame of the place_order call in flight
    trade_records,     \* PolymarketClient._trade_records
    \* ---- the clock ----
    now,               \* time.time(), in seconds
    \* ---- OracleEngine (oracles/price_feed.py) ----
    window_anchor,     \* OracleEngine._window_anchor
    cap,               \* per calling task: its capture_window_open call
    anchor_log,        \* history: what capture_window_open has returned
    oracle_calls,      \* history: capture_window_open calls made
    \* ---- ArbScanner (core/arb_scanner.py) ----
    arb_config,        \* ArbScanner.config
    known_markets,     \* ArbScanner._known_markets
    cooldowns,         \* ArbScanner._cooldowns
    daily_trades,      \* ArbScanner._daily_trades
    daily_spent,       \* ArbScanner._daily_spent, in USD
    day_start,         \* ArbScanner._day_start
    executions,        \* ArbScanner._executions
    last_discovery,    \* ArbScanner._last_discovery
    consecutive_errors,\* ArbScanner._consecutive_errors
    backoff_until,     \* ArbScanner._backoff_until
    scan,              \* the frame of ArbScanner.run's loop
    \* ---- RiskManager (core/risk_manager.py) and the orchestrator (bot.py) ----
    risk_manager,      \* RiskManager: capital, _total_pnl, _daily
    fivem_trade_ids,   \* BTCPredictionBot._5m_trade_ids
    archived_trades,   \* PolymarketClient._archived_trades
    venue,             \* per trade id: its market open, or won or lost
    task,              \* per loop (main, fivem): the frame of its step
    pnl_log,           \* history: the PnL applications, (trade id, bucket)
    placed,            \* history: orders placed per engine in the UTC day
    api,               \* history: the RiskManager method called last
    lw,                \* _late_window_traded_markets and the sweep's frame
    decision,          \* the StrategyDecision the StrategyEngine returned last
    \* ---- the window scheduler (bot.py: run, _5m_loop) ----
    config,            \* BotConfig: active_5m.enabled, edge.enable_hedge
    bot,               \* the interval and the traded-this-window flags
    loops,             \* per loop (main, fivem): asleep or in a cycle
    cycle_log,         \* history: cycles and orders per targeted boundary
    \* ---- MarketMaker (core/market_maker.py) ----
    mm_config,         \* MarketMaker.config
    mm,                \* MarketMaker: quotes, fill totals, cancelled ids, frame
    mm_venue,          \* the venue's open maker orders and its next order id
    mm_log,            \* history: orders submitted, failed lookups, pulls
    \* ---- OracleEngine's RTDS stream (oracles/price_feed.py) ----
    rtds,              \* the stream task, its backoff, and the watchdog
    \* ---- shutdown (bot.py: run, stop, shutdown, main) ----
    shut,              \* the stop flags and each loop's position
    \* ---- PolymarketClient.filter_current_window ----
    window_filter,     \* history: the call made last and what it returned
    \* ---- OracleEngine.get_price ----
    feed,              \* the stream buffers, _last_prices, the last result
    \* ---- BTCPredictionBot._is_in_entry_window ----
    entry,             \* history: the call made and what it returned
    \* ---- the main loop with late-window trading (bot.py) ----
    sweep              \* the saved anchor, the flags, the decisions made

orderVars == <<order_type, po, trade_records>>
oracleVars == <<window_anchor, cap, anchor_log, oracle_calls>>
arbVars == <<arb_config, known_markets, cooldowns, daily_trades, daily_spent,
             day_start, executions, last_discovery, consecutive_errors,
             backoff_until, scan>>

riskVars == <<risk_manager, fivem_trade_ids, archived_trades, venue, task,
              pnl_log, placed, api, lw, decision>>

schedVars == <<config, bot, loops, cycle_log>>

mmVars == <<mm_config, mm, mm_venue, mm_log>>

auxVars == <<rtds, shut, window_filter, feed, entry, sweep>>

vars == <<orderVars, now, oracleVars, arbVars, riskVars, schedVars, mmVars,
          auxVars>>

\* What the actions of one component leave alone.
notOrder == <<now, oracleVars, arbVars, riskVars, schedVars, mmVars, auxVars>>
notOracle == <<orderVars, arbVars, riskVars, schedVars, mmVars, auxVars>>
notArb == <<order_type, po, oracleVars, riskVars, schedVars, mmVars, auxVars>>
notRisk == <<order_type, po, oracleVars, arbVars, schedVars, api, lw,
            decision, mmVars, auxVars>>
notSched == <<orderVars, oracleVars, arbVars, riskVars, mmVars, auxVars>>

-----------------------------------------------------------------------------
(***************************************************************************)
(* Bounds of the model.                                                    *)
(***************************************************************************)

\* place_order calls that end in a TradeRecord, per run of SpecOrder
MaxPlaced == 2

\* capture_window_open calls per run of SpecOracle, and the minutes it spans
MaxCalls == 3
OracleMinutes == 8

\* SpecArb: the poll intervals a run spans and the consecutive errors it can
\* reach
ArbMaxTicks == 4
ArbMaxErrors == 2

\* SpecRisk: the trades placed in a run, and the six-hour steps of its clock
MaxTrades == 2
MaxRiskTicks == 2

\* SpecRiskApi: the calls of a run, the six-hour steps of its clock and the
\* largest bankroll it reaches
MaxApiCalls == 3
MaxApiTicks == 2
MaxCapital == 5000000

\* SpecLate: the sweeps and the 15m trading cycles of a run
MaxSweeps == 4
MaxLwCycles == 1

\* SpecMM: the cycles of a run
MaxMMCycles == 1

\* time.time() when SpecMM starts: 07:33:20 UTC of the third day
MMStart == 2 * 86400 + 27200

\* SpecSched: the second of the hour at which a run ends, and the hedge
\* orders one cycle can submit
SchedEnd == 3600
MaxHedges == 1

\* time.time() when SpecSched starts: 45:00 of an hour, so that a run meets
\* two 5-minute boundaries and the top of the next hour
SchedStart == 2700

\* time.time() when SpecRisk starts: 18:00 UTC
RiskStart == 64800

\* time.time() when the scanner starts, the end date of a market about to
\* close and an end date no run reaches
ArbStart == 1000
ArbNearEnd == 1030
ArbFarEnd == 100000

\* ArbScanner._discovery_interval, in seconds
DiscoveryInterval == 45

\* fallback_max of _estimate_taker_fee_pct, in hundredths of a percent
FallbackMaxFee == 156

-----------------------------------------------------------------------------
(***************************************************************************)
(* PolymarketClient.place_order                                            *)
(***************************************************************************)

\* A venue response to post_order: the keys place_order reads.
\* "delayed" stands for every status other than matched and live;
\* thin says that errorMsg reports an order that could not be fully filled.
Responses ==
    [success : BOOLEAN, status : {"matched", "live", "delayed"},
     orderID : BOOLEAN, tx : BOOLEAN, thin : BOOLEAN]

NoResp ==
    [success |-> FALSE, status |-> "none", orderID |-> FALSE,
     tx |-> FALSE, thin |-> FALSE]

\* What one get_order lookup can do: raise, return no order, or return an
\* order with a status ("live" stands for every status that is no fill).
GetOrderOutcomes == {"raise", "none", "matched", "filled", "live"}

IsFill(st) == st \in {"matched", "filled"}

IdleFrame ==
    [pc |-> "idle", resp |-> NoResp, fok_rejected_thin_book |-> FALSE,
     success |-> FALSE, status |-> "none", tx_hashes |-> FALSE,
     verified |-> FALSE, confirmed |-> FALSE, posted |-> <<>>,
     slipped |-> FALSE, engine |-> "main", ret |-> "pending"]

\* return None
ReturnNone(f) == [f EXCEPT !.pc = "done", !.ret = "none"]

\* TradeRecord(...) as place_order builds it; confirmed records whether a
\* get_order lookup of the call answered matched or filled.  outcome None
\* is "pending".
TradeRecord(id, engine, confirmed, slipped, size_usd, entry_price, t) ==
    [trade_id |-> id, engine |-> engine, confirmed |-> confirmed,
     slipped |-> slipped, size_usd |-> size_usd, entry_price |-> entry_price,
     timestamp |-> t, outcome |-> "pending", pnl |-> 0]

\* The fill verification's entry: with transaction hashes the 3s requery
\* comes first, without them (a ghost fill) only the 2s requery is left.
\* A response that is neither a success nor matched would skip the
\* verification; none gets here, since Dispatch has returned on it or the
\* resting-order branch has set success.
EnterVerification(f) ==
    IF f.success \/ f.status = "matched"
    THEN IF f.tx_hashes THEN [f EXCEPT !.pc = "verify1"]
                        ELSE [f EXCEPT !.pc = "verify2"]
    ELSE [f EXCEPT !.pc = "record"]

\* From the response to the next await: the rejection test, the resting
\* ("live") order's wait, or the fill verification.
Dispatch(f) ==
    LET g == [f EXCEPT !.success = f.resp.success,
                       !.status = f.resp.status,
                       !.tx_hashes = f.resp.tx]
    IN  IF ~g.success /\ g.status \notin {"matched", "live"}
        THEN ReturnNone(g)
        ELSE IF g.status = "live" /\ ~g.success
             THEN IF g.resp.orderID THEN [g EXCEPT !.pc = "live_wait"]
                                    ELSE ReturnNone(g)
             ELSE EnterVerification(g)

\* the fallback submitted again when the GTC order did not fill
AfterGTCRetry(f) ==
    IF f.resp.success \/ f.resp.status = "matched"
    THEN Dispatch([f EXCEPT !.slipped = TRUE])
    ELSE [f EXCEPT !.pc = "gtc"]

\* exec_price = slippage_price when the limit-with-slippage order counts
\* as filled.
AfterGTC(f) ==
    Dispatch([f EXCEPT !.slipped = f.resp.success \/ f.resp.status = "matched"])

\* place_order(market, direction, size_usd, ...): the size and price tests,
\* then the mode's first submission.
PlaceOrder ==
    /\ po.pc = "idle"
    /\ Len(trade_records) < MaxPlaced
    /\ \E size_ok, price_ok \in BOOLEAN :
          po' = IF ~size_ok \/ ~price_ok
                THEN ReturnNone(IdleFrame)
                ELSE [IdleFrame EXCEPT
                        !.pc = IF order_type = "market" THEN "fok" ELSE "limit"]
    /\ UNCHANGED <<order_type, trade_records, notOrder>>

\* Attempt 1 of market mode: the fill-or-kill order.
SubmitFOK ==
    /\ po.pc = "fok"
    /\ LET f == [po EXCEPT !.posted = Append(po.posted, "FOK")]
       IN  \/ \* the SDK raises "couldn't be fully filled"
              po' = [f EXCEPT !.fok_rejected_thin_book = TRUE, !.pc = "gtc"]
           \/ \* the SDK raises anything else, or answers with no response
              po' = ReturnNone(f)
           \/ \E r \in Responses :
                 po' = IF ~r.success /\ r.status \notin {"matched", "live"} /\ r.thin
                       THEN [f EXCEPT !.resp = r,
                                      !.fok_rejected_thin_book = TRUE,
                                      !.pc = "gtc"]
                       ELSE Dispatch([f EXCEPT !.resp = r])
    /\ UNCHANGED <<order_type, trade_records, notOrder>>

\* Attempt 2 of market mode: the GTC limit order with slippage.
SubmitGTC ==
    /\ po.pc = "gtc"
    /\ LET f == [po EXCEPT !.posted = Append(po.posted, "GTC")]
       IN  \/ po' = ReturnNone(f)      \* create_order or post_order raises
           \/ \E r \in Responses :
                 po' = IF r.status = "live" /\ r.orderID
                       THEN [f EXCEPT !.resp = r, !.pc = "gtc_wait"]
                       ELSE AfterGTC([f EXCEPT !.resp = r])
    /\ UNCHANGED <<order_type, trade_records, notOrder>>

\* After the 10s wait on a resting GTC order: cancel it.  A cancel that
\* succeeds rewrites the response to a failure, one that raises to a match.
GTCCancel ==
    /\ po.pc = "gtc_wait"
    /\ \E cancelled \in BOOLEAN :
          po' = IF cancelled
                THEN AfterGTC([po EXCEPT !.resp =
                        [success |-> FALSE, status |-> "cancelled",
                         orderID |-> FALSE, tx |-> FALSE, thin |-> FALSE]])
                ELSE AfterGTC([po EXCEPT !.resp.success = TRUE,
                                         !.resp.status = "matched"])
    /\ UNCHANGED <<order_type, trade_records, notOrder>>

\* Limit mode: one GTC limit order at the execution price.
SubmitLimit ==
    /\ po.pc = "limit"
    /\ LET f == [po EXCEPT !.posted = Append(po.posted, "GTC")]
       IN  \/ po' = ReturnNone(f)      \* raises: the outer handler returns None
           \/ \E r \in Responses : po' = Dispatch([f EXCEPT !.resp = r])
    /\ UNCHANGED <<order_type, trade_records, notOrder>>

\* After the 12s wait on a resting order: requery it; a fill goes on to the
\* verification, anything else is cancelled, and a cancel that raises is
\* followed by one more requery.
LiveRequery ==
    /\ po.pc = "live_wait"
    /\ \E o \in GetOrderOutcomes, tx \in BOOLEAN, cancelled \in BOOLEAN :
          po' = IF o = "raise" THEN ReturnNone(po)
                ELSE IF IsFill(o)
                THEN EnterVerification(
                        [po EXCEPT !.success = TRUE, !.status = "matched",
                                   !.tx_hashes = tx, !.confirmed = TRUE])
                ELSE IF cancelled THEN ReturnNone(po)
                ELSE [po EXCEPT !.pc = "live_recheck"]
    /\ UNCHANGED <<order_type, trade_records, notOrder>>

\* The requery after a failed cancel.  Whatever it answers, the branch ends
\* in the return None that follows the cancel's try block.
LiveRecheck ==
    /\ po.pc = "live_recheck"
    /\ \E o \in GetOrderOutcomes, tx \in BOOLEAN :
          po' = IF IsFill(o)
                THEN ReturnNone([po EXCEPT !.success = TRUE, !.status = "matched",
                                           !.tx_hashes = tx, !.confirmed = TRUE])
                ELSE ReturnNone(po)
    /\ UNCHANGED <<order_type, trade_records, notOrder>>

\* The record is appended and returned.
Recorded(f) ==
    /\ trade_records' = Append(trade_records,
          TradeRecord(Len(trade_records) + 1, f.engine, f.confirmed, f.slipped,
                      10000, 50, now))
    /\ po' = [f EXCEPT !.pc = "done", !.ret = "trade"]

\* First verification: 3s after a response with transaction hashes.
Verify1 ==
    /\ po.pc = "verify1"
    /\ \E o \in GetOrderOutcomes :
          IF IsFill(o)
          THEN Recorded([po EXCEPT !.verified = TRUE, !.confirmed = TRUE])
          ELSE po' = [po EXCEPT !.pc = "verify2"] /\ UNCHANGED trade_records
    /\ UNCHANGED <<order_type, notOrder>>

\* Second verification: 2s later.
Verify2 ==
    /\ po.pc = "verify2"
    /\ \E o \in GetOrderOutcomes :
          IF IsFill(o)
          THEN Recorded([po EXCEPT !.verified = TRUE, !.confirmed = TRUE])
          ELSE IF o = "raise"
          THEN Recorded(po)        \* "recording trade anyway"
          ELSE po' = ReturnNone(po) /\ UNCHANGED trade_records
    /\ UNCHANGED <<order_type, notOrder>>

\* The caller takes the result.
OrderReturn ==
    /\ po.pc = "done"
    /\ po' = IdleFrame
    /\ UNCHANGED <<order_type, trade_records, notOrder>>

OrderInit ==
    /\ order_type \in {"market", "limit"}
    /\ po = IdleFrame
    /\ trade_records = <<>>

\* The client before any call, in the specifications of the other components.
OrderIdle ==
    /\ order_type = "market"
    /\ po = IdleFrame
    /\ trade_records = <<>>

OrderNext ==
    \/ PlaceOrder
    \/ SubmitFOK
    \/ SubmitGTC
    \/ GTCCancel
    \/ SubmitLimit
    \/ LiveRequery
    \/ LiveRecheck
    \/ Verify1
    \/ Verify2
    \/ OrderReturn

-----------------------------------------------------------------------------
(***************************************************************************)
(* OracleEngine.capture_window_open                                        *)
(***************************************************************************)

NoAnchor == [boundary_time |-> -1, open_price |-> 0, source |-> "none",
             captured_at |-> -1]

\* The tasks that capture anchors and the window length each one asks for:
\* the main cycle its directional interval, the 5m cycle five minutes.
CaptureTasks == {"main", "fivem"}
WindowMinutes(caller) == IF caller = "main" THEN 15 ELSE 5

\* What get_price can answer: an exception, or a consensus with or without
\* the Chainlink price (without it, the first source names the anchor).
Consensus ==
    [chainlink : BOOLEAN, price : {50000, 50075}]

\* _current_window_boundary: the start of the W-minute window now is in,
\* from the minute of the hour.
CurrentWindowBoundary(W, t) ==
    LET minute == (t \div 60) % 60
        window_start_min == (minute \div W) * W
    IN  (t - (t % 3600)) + window_start_min * 60

IdleCapture == [pc |-> "idle", W |-> 0, boundary_ts |-> -1]

\* capture_window_open up to its await: the boundary, and the cached anchor
\* when the one slot holds an anchor of that boundary.
CaptureBegin(caller) ==
    /\ cap[caller].pc = "idle"
    /\ oracle_calls < MaxCalls
    /\ oracle_calls' = oracle_calls + 1
    /\ LET W == WindowMinutes(caller)
           boundary_ts == CurrentWindowBoundary(W, now)
       IN  IF window_anchor # NoAnchor /\ window_anchor.boundary_time = boundary_ts
           THEN /\ anchor_log' = anchor_log \cup
                      {[W |-> W, boundary |-> boundary_ts, anchor |-> window_anchor]}
                /\ UNCHANGED <<window_anchor, cap>>
           ELSE /\ cap' = [cap EXCEPT ![caller] =
                      [pc |-> "fetch", W |-> W, boundary_ts |-> boundary_ts]]
                /\ UNCHANGED <<window_anchor, anchor_log>>
    /\ UNCHANGED <<now, notOracle>>

\* get_price has answered: the anchor is built, stored in the slot and
\* returned.
CaptureFinish(caller) ==
    /\ cap[caller].pc = "fetch"
    /\ \E c \in Consensus :
          LET a == [boundary_time |-> cap[caller].boundary_ts,
                    open_price |-> c.price,
                    source |-> IF c.chainlink THEN "chainlink" ELSE "rtds_binance",
                    captured_at |-> now]
          IN  /\ window_anchor' = a
              /\ anchor_log' = anchor_log \cup
                    {[W |-> cap[caller].W, boundary |-> cap[caller].boundary_ts,
                      anchor |-> a]}
    /\ cap' = [cap EXCEPT ![caller] = IdleCapture]
    /\ UNCHANGED <<now, oracle_calls, notOracle>>

\* get_price raises ("ALL ORACLES DOWN"): the call raises, the slot is kept.
CaptureFails(caller) ==
    /\ cap[caller].pc = "fetch"
    /\ cap' = [cap EXCEPT ![caller] = IdleCapture]
    /\ UNCHANGED <<now, window_anchor, anchor_log, oracle_calls, notOracle>>

\* A minute passes.
OracleTick ==
    /\ now < OracleMinutes * 60
    /\ now' = now + 60
    /\ UNCHANGED <<oracleVars, notOracle>>

OracleIdle ==
    /\ window_anchor = NoAnchor
    /\ cap = [t \in CaptureTasks |-> IdleCapture]
    /\ anchor_log = {}
    /\ oracle_calls = 0

OracleInit ==
    /\ now = 0
    /\ OracleIdle

OracleNext ==
    \/ \E caller \in CaptureTasks : CaptureBegin(caller)
    \/ \E caller \in CaptureTasks : CaptureFinish(caller)
    \/ \E caller \in CaptureTasks : CaptureFails(caller)
    \/ OracleTick

-----------------------------------------------------------------------------
(***************************************************************************)
(* ArbScanner: one scan of run()'s loop, one await per step.               *)
(*                                                                         *)
(* Prices are in cents, percentages (edge and fee) in units of 1/10000 of  *)
(* a percent: the precision _estimate_taker_fee_pct rounds to.             *)
(***************************************************************************)

\* The condition ids the venue lists, in the order the dict keeps them.
MarketOrder == <<"m1", "m2">>
Markets == {MarketOrder[i] : i \in 1..Len(MarketOrder)}

\* What the venue quotes for a market: outcomePrices and liquidityClob.
Quotes ==
    { [price_yes |-> 48, price_no |-> 48, liquidity |-> 500],
      [price_yes |-> 39, price_no |-> 58, liquidity |-> 500],
      [price_yes |-> 10, price_no |-> 87, liquidity |-> 500],
      [price_yes |-> 50, price_no |-> 48, liquidity |-> 0] }

\* The end date of each market: m1 closes after the run, m2 during it.
EndTs(cid) == IF cid = "m1" THEN ArbFarEnd ELSE ArbNearEnd

\* ArbScannerConfig: its default size per side and a budget of 50 USD, with
\* a 24s poll, a 48s cooldown and two trades a day (the trade cap binds), or
\* with a 100s poll, a 100s cooldown and three trades a day (the budget
\* binds, and the second consecutive error reaches the backoff cap).
ArbConfigs ==
    { [poll_interval_secs |-> 24, arb_threshold |-> 98, min_edge_pct |-> 10000,
       size_per_side_usd |-> 10, max_daily_arb_budget |-> 50,
       max_daily_arb_trades |-> 2, min_liquidity_usd |-> 0,
       cooldown_per_market_secs |-> 48],
      [poll_interval_secs |-> 100, arb_threshold |-> 98, min_edge_pct |-> 10000,
       size_per_side_usd |-> 10, max_daily_arb_budget |-> 50,
       max_daily_arb_trades |-> 3, min_liquidity_usd |-> 0,
       cooldown_per_market_secs |-> 100] }

\* round(x, n) on the quotient n / d of two naturals: to the nearest, a tie
\* to the even neighbour.
RoundHalfEven(n, d) ==
    LET q == n \div d
        r == n % d
    IN  IF 2 * r < d THEN q
        ELSE IF 2 * r > d THEN q + 1
        ELSE IF q % 2 = 0 THEN q ELSE q + 1

\* _estimate_taker_fee_pct(price): round(1.56 * 4 * p * (1 - p), 4).
EstimateTakerFeePct(price) ==
    IF price <= 0 \/ price >= 100 THEN 0
    ELSE RoundHalfEven(FallbackMaxFee * 4 * price * (100 - price), 100)

\* ArbMarket.combined, .edge_pct, .time_remaining_secs
Combined(m) == m.price_yes + m.price_no
EdgePct(m) == IF Combined(m) < 100 THEN (100 - Combined(m)) * 10000 ELSE 0
TimeRemainingSecs(m, t) == IF m.end_ts - t > 0 THEN m.end_ts - t ELSE 0

\* net_edge_pct of _find_opportunities
NetEdgePct(m) ==
    EdgePct(m) - (EstimateTakerFeePct(m.price_yes) + EstimateTakerFeePct(m.price_no))

\* One market's pass through _find_opportunities' tests at time t.
\* _cooldowns.get(cid, 0) of a market never executed is the epoch, which
\* time.time() is further from than any cooldown.
IsOpportunityNoFeeTest(km, cid, t) ==
    LET m == km[cid]
    IN  /\ ~(Combined(m) = 0 \/ TimeRemainingSecs(m, t) <= 0)
        /\ ~(Combined(m) >= arb_config.arb_threshold)
        /\ ~(EdgePct(m) < arb_config.min_edge_pct)
        /\ ~(cid \in DOMAIN cooldowns
               /\ t - cooldowns[cid] < arb_config.cooldown_per_market_secs)
        /\ ~(m.liquidity < arb_config.min_liquidity_usd)

\* the tests of _find_opportunities without the cooldown test
IsOpportunityNoCooldown(km, cid, t) ==
    LET m == km[cid]
    IN  /\ ~(Combined(m) = 0 \/ TimeRemainingSecs(m, t) <= 0)
        /\ ~(Combined(m) >= arb_config.arb_threshold)
        /\ ~(EdgePct(m) < arb_config.min_edge_pct)
        /\ ~(NetEdgePct(m) <= 0)
        /\ ~(m.liquidity < arb_config.min_liquidity_usd)

IsOpportunity(km, cid, t) ==
    LET m == km[cid]
    IN  /\ ~(Combined(m) = 0 \/ TimeRemainingSecs(m, t) <= 0)
        /\ ~(Combined(m) >= arb_config.arb_threshold)
        /\ ~(EdgePct(m) < arb_config.min_edge_pct)
        /\ ~(NetEdgePct(m) <= 0)
        /\ ~(cid \in DOMAIN cooldowns
               /\ t - cooldowns[cid] < arb_config.cooldown_per_market_secs)
        /\ ~(m.liquidity < arb_config.min_liquidity_usd)

\* opps.sort(key=edge_pct, reverse=True): a stable sort, largest edge first.
RECURSIVE SortByEdge(_, _)
SortByEdge(km, s) ==
    IF Len(s) <= 1 THEN s
    ELSE LET best == CHOOSE i \in 1..Len(s) :
                        \A j \in 1..Len(s) :
                           \/ EdgePct(km[s[i]]) > EdgePct(km[s[j]])
                           \/ EdgePct(km[s[i]]) = EdgePct(km[s[j]]) /\ i <= j
             rest == [k \in 1..(Len(s) - 1) |-> IF k < best THEN s[k] ELSE s[k + 1]]
         IN  <<s[best]>> \o SortByEdge(km, rest)

\* _find_opportunities(markets), sorted as run() sorts it.
FindOpportunities(km, t) ==
    SortByEdge(km, SelectSeq(MarketOrder,
                   LAMBDA c : c \in DOMAIN km /\ IsOpportunity(km, c, t)))

\* net_profit = round(gross_profit - total_fees, 2) > 0 in _execute_arb, with
\* gross_profit = size * (1 / combined - 1) and total_fees = size * fees / 100.
\* The rounded difference is positive exactly when the difference is above
\* half a cent: size * (10^6 * (100 - c) - f * c) > 5000 * c, for c the
\* combined price in cents and f the two fees in 1/10000 percent.
NetProfitPositive(m) ==
    LET c == Combined(m)
        f == EstimateTakerFeePct(m.price_yes) + EstimateTakerFeePct(m.price_no)
    IN  1000000 * (100 - c) - f * c > (5000 * c) \div arb_config.size_per_side_usd

\* The markets of km that have time left at t.
Live(km, t) == {c \in DOMAIN km : TimeRemainingSecs(km[c], t) > 0}

IdleScan == [pc |-> "sleep", wake |-> 0, t0 |-> 0, opps |-> <<>>,
             cid |-> "none", exec_now |-> 0]

\* The end of a scan that raised nothing: the error counter is reset and the
\* loop sleeps one poll interval.
ScanDone(f) ==
    /\ consecutive_errors' = 0
    /\ scan' = [f EXCEPT !.pc = "sleep", !.opps = <<>>, !.cid = "none",
                         !.wake = now + arb_config.poll_interval_secs]

\* After one _execute_arb: run() stops the pass once a daily limit is
\* reached, takes the next opportunity otherwise.
AfterExecute(f, trades, spent) ==
    IF \/ trades >= arb_config.max_daily_arb_trades
       \/ spent >= arb_config.max_daily_arb_budget
       \/ Len(f.opps) <= 1
    THEN ScanDone(f)
    ELSE /\ scan' = [f EXCEPT !.pc = "exec", !.opps = Tail(f.opps), !.cid = "none"]
         /\ UNCHANGED consecutive_errors

\* The top of the loop: the daily reset, then the backoff test.
ArbScanStart ==
    /\ scan.pc = "sleep"
    /\ now >= scan.wake
    /\ IF now - day_start > 86400
       THEN daily_trades' = 0 /\ daily_spent' = 0 /\ day_start' = now
       ELSE UNCHANGED <<daily_trades, daily_spent, day_start>>
    /\ IF now < backoff_until
       THEN scan' = [scan EXCEPT !.wake = now + arb_config.poll_interval_secs]
       ELSE scan' = [scan EXCEPT !.pc = "fetch", !.t0 = now]
    /\ UNCHANGED <<arb_config, known_markets, cooldowns, executions,
                   last_discovery, consecutive_errors, backoff_until,
                   trade_records, now, notArb>>

\* The opportunities of the markets km, and the scan's next step.
ArbFound(km) ==
    LET live == [c \in Live(km, now) |-> km[c]]
        opps == FindOpportunities(live, now)
    IN  /\ known_markets' = live
        /\ IF opps = <<>>
           THEN ScanDone(scan)
           ELSE /\ scan' = [scan EXCEPT !.pc = "exec", !.opps = opps]
                /\ UNCHANGED consecutive_errors

\* _discover_markets has answered: the live markets it knew are kept as they
\* are, the venue may list each of the others anew, and a market listed
\* with no time left is dropped.
ArbDiscover ==
    /\ scan.pc = "fetch"
    /\ scan.t0 - last_discovery > DiscoveryInterval
    /\ \E fresh \in SUBSET (Markets \ Live(known_markets, now)) :
       \E q \in [fresh -> Quotes] :
          ArbFound([c \in Live(known_markets, now) \cup
                          {d \in fresh : EndTs(d) - now > 0} |->
                      IF c \in fresh
                      THEN [price_yes |-> q[c].price_yes,
                            price_no |-> q[c].price_no,
                            liquidity |-> q[c].liquidity,
                            end_ts |-> EndTs(c)]
                      ELSE known_markets[c]])
    /\ last_discovery' = scan.t0
    /\ UNCHANGED <<arb_config, cooldowns, daily_trades, daily_spent, day_start,
                   executions, backoff_until, trade_records, now, notArb>>

\* _refresh_prices has answered: each live market either keeps its quote (it
\* was fresh, or the venue did not answer) or takes a new one.
ArbRefresh ==
    /\ scan.pc = "fetch"
    /\ ~(scan.t0 - last_discovery > DiscoveryInterval)
    /\ \E upd \in SUBSET Live(known_markets, scan.t0) :
       \E q \in [upd -> Quotes] :
          ArbFound([c \in DOMAIN known_markets |->
                      IF c \in upd
                      THEN [known_markets[c] EXCEPT
                              !.price_yes = q[c].price_yes,
                              !.price_no = q[c].price_no,
                              !.liquidity = q[c].liquidity]
                      ELSE known_markets[c]])
    /\ UNCHANGED <<arb_config, cooldowns, daily_trades, daily_spent, day_start,
                   executions, last_discovery, backoff_until, trade_records,
                   now, notArb>>

\* the scan raises and the backoff doubles without the 300s cap
ArbScanRaisesUncapped ==
    /\ scan.pc = "fetch"
    /\ consecutive_errors < ArbMaxErrors
    /\ consecutive_errors' = consecutive_errors + 1
    /\ backoff_until' =
          now + arb_config.poll_interval_secs * (2 ^ consecutive_errors')
    /\ scan' = [scan EXCEPT !.pc = "sleep", !.opps = <<>>, !.cid = "none",
                            !.wake = now + arb_config.poll_interval_secs]
    /\ UNCHANGED <<arb_config, known_markets, cooldowns, daily_trades,
                   daily_spent, day_start, executions, last_discovery,
                   trade_records, now, notArb>>

\* The scan raises: one more consecutive error, and the backoff.
ArbScanRaises ==
    /\ scan.pc = "fetch"
    /\ consecutive_errors < ArbMaxErrors
    /\ consecutive_errors' = consecutive_errors + 1
    /\ LET backoff_secs ==
              IF arb_config.poll_interval_secs * (2 ^ consecutive_errors') < 300
              THEN arb_config.poll_interval_secs * (2 ^ consecutive_errors')
              ELSE 300
       IN  backoff_until' = now + backoff_secs
    /\ scan' = [scan EXCEPT !.pc = "sleep", !.opps = <<>>, !.cid = "none",
                            !.wake = now + arb_config.poll_interval_secs]
    /\ UNCHANGED <<arb_config, known_markets, cooldowns, daily_trades,
                   daily_spent, day_start, executions, last_discovery,
                   trade_records, now, notArb>>

\* _execute_arb(opp) up to its first place_order: the daily limits and the
\* fee-adjusted profit.
ArbExecute ==
    /\ scan.pc = "exec"
    /\ LET cid == Head(scan.opps)
           cost == arb_config.size_per_side_usd * 2
       IN  IF \/ daily_trades >= arb_config.max_daily_arb_trades
              \/ daily_spent + cost > arb_config.max_daily_arb_budget
              \/ ~NetProfitPositive(known_markets[cid])
           THEN AfterExecute(scan, daily_trades, daily_spent)
           ELSE /\ scan' = [scan EXCEPT !.pc = "orders", !.cid = cid,
                                        !.exec_now = now]
                /\ UNCHANGED consecutive_errors
    /\ UNCHANGED <<arb_config, known_markets, cooldowns, daily_trades,
                   daily_spent, day_start, executions, last_discovery,
                   backoff_until, trade_records, now, notArb>>

\* The records place_order leaves for the filled sides of an arb.
ArbRecords(recs, m, yes, no) ==
    LET size == arb_config.size_per_side_usd * 10000
        one == IF yes
               THEN Append(recs, TradeRecord(Len(recs) + 1, "arb", TRUE, FALSE,
                                             size, m.price_yes, now))
               ELSE recs
    IN  IF no
        THEN Append(one, TradeRecord(Len(one) + 1, "arb", TRUE, FALSE,
                                     size, m.price_no, now))
        ELSE one

\* The two place_order calls have returned (a trade or None each, or the
\* pair raised): the execution is recorded, the market cools down, the
\* daily counters move.
ArbOrders ==
    /\ scan.pc = "orders"
    /\ \E yes_trade, no_trade \in BOOLEAN :
          LET m == known_markets[scan.cid]
              execution ==
                 [timestamp |-> scan.exec_now, condition_id |-> scan.cid,
                  price_yes |-> m.price_yes, price_no |-> m.price_no,
                  status |-> IF yes_trade /\ no_trade THEN "filled"
                             ELSE IF yes_trade \/ no_trade THEN "partial"
                             ELSE "failed"]
          IN  /\ executions' = Append(executions, execution)
              /\ trade_records' = ArbRecords(trade_records, m, yes_trade, no_trade)
    /\ cooldowns' = [c \in DOMAIN cooldowns \cup {scan.cid} |->
                        IF c = scan.cid THEN scan.exec_now ELSE cooldowns[c]]
    /\ daily_trades' = daily_trades + 1
    /\ daily_spent' = daily_spent + arb_config.size_per_side_usd * 2
    /\ AfterExecute(scan, daily_trades', daily_spent')
    /\ UNCHANGED <<arb_config, known_markets, day_start, last_discovery,
                   backoff_until, now, notArb>>

\* Time passes, a poll interval at a time, while the loop sleeps: on this
\* grid a scan's awaits are shorter than one step of the clock.
ArbTick ==
    /\ scan.pc = "sleep"
    /\ now < ArbStart + arb_config.poll_interval_secs * ArbMaxTicks
    /\ now' = now + arb_config.poll_interval_secs
    /\ UNCHANGED <<arbVars, trade_records, notArb>>

\* The scanner as __init__ leaves it.
ArbIdle ==
    /\ arb_config = CHOOSE c \in ArbConfigs : c.max_daily_arb_trades = 2
    /\ known_markets = <<>>
    /\ cooldowns = <<>>
    /\ daily_trades = 0
    /\ daily_spent = 0
    /\ day_start = 0
    /\ executions = <<>>
    /\ last_discovery = 0
    /\ consecutive_errors = 0
    /\ backoff_until = 0
    /\ scan = IdleScan

\* run() has started: _day_start = time.time().
ArbInit ==
    /\ now = ArbStart
    /\ arb_config \in ArbConfigs
    /\ known_markets = <<>>
    /\ cooldowns = <<>>
    /\ daily_trades = 0
    /\ daily_spent = 0
    /\ day_start = now
    /\ executions = <<>>
    /\ last_discovery = 0
    /\ consecutive_errors = 0
    /\ backoff_until = 0
    /\ scan = IdleScan

ArbNext ==
    \/ ArbScanStart
    \/ ArbDiscover
    \/ ArbRefresh
    \/ ArbScanRaises
    \/ ArbExecute
    \/ ArbOrders
    \/ ArbTick

-----------------------------------------------------------------------------
(***************************************************************************)
(* RiskManager, and the orchestrator's placement and resolution steps that *)
(* call it: the main task (15m cycle and late-window sweep) and the 5m     *)
(* task, one await per step.  Amounts are in units of 1/10000 USD.         *)
(***************************************************************************)

Min(a, b) == IF a < b THEN a ELSE b
Max(a, b) == IF a > b THEN a ELSE b

\* RiskConfig and the late-window and 5m limits the bot copies into the
\* RiskManager: the default percentages and sizes, with daily caps of two
\* trades and loss streaks of two.
Limits ==
    [max_daily_trades |-> 2, max_daily_loss_pct |-> 25,
     max_consecutive_losses |-> 1, loss_streak_cooldown_mins |-> 60,
     max_trade_pct |-> 5, min_trade_size_usd |-> 10000,
     max_trade_size_usd |-> 250000,
     late_window_max_daily_trades |-> 2, late_window_budget_pct |-> 25,
     late_window_max_trade_usd |-> 80000,
     fivem_max_daily_trades |-> 2, fivem_budget_pct |-> 30,
     fivem_max_trade_usd |-> 100000, fivem_max_daily_loss_pct |-> 15,
     fivem_max_consecutive_losses |-> 1, fivem_cooldown_mins |-> 30]

\* _today(): the UTC date of time t, as a day number.
Today(t) == t \div 86400

\* DailyStats(date=..., start_of_day_capital=...)
DailyStats(date, capital) ==
    [date |-> date, trades |-> 0, wins |-> 0, losses |-> 0, total_pnl |-> 0,
     consecutive_losses |-> 0, cooldown_until |-> 0,
     start_of_day_capital |-> capital,
     late_window_trades |-> 0, late_window_pnl |-> 0, late_window_spent |-> 0,
     trades_5m |-> 0, wins_5m |-> 0, losses_5m |-> 0, pnl_5m |-> 0,
     spent_5m |-> 0, consecutive_losses_5m |-> 0, cooldown_until_5m |-> 0]

\* a reset that keeps the opening capital of the day before
ResetDailyStaleCapital(rm, t) ==
    IF rm.daily.date # Today(t)
    THEN [rm EXCEPT !.daily = DailyStats(Today(t), rm.daily.start_of_day_capital)]
    ELSE rm

\* _reset_daily_if_needed() at time t
ResetDailyIfNeeded(rm, t) ==
    IF rm.daily.date # Today(t)
    THEN [rm EXCEPT !.daily = DailyStats(Today(t), rm.capital)]
    ELSE rm

\* reference = start_of_day_capital or capital
Reference(rm) ==
    IF rm.daily.start_of_day_capital # 0 THEN rm.daily.start_of_day_capital
    ELSE rm.capital

\* can_trade() at time t: the answer, and the manager it leaves.
CanTrade(rm0, t) ==
    LET rm == ResetDailyIfNeeded(rm0, t)
        d == rm.daily
    IN  IF t < d.cooldown_until THEN [ok |-> FALSE, rm |-> rm]
        ELSE IF d.trades >= Limits.max_daily_trades THEN [ok |-> FALSE, rm |-> rm]
        ELSE IF rm.capital > 0 /\ Reference(rm) > 0
                /\ (-Min(0, d.total_pnl)) * 100 >= Limits.max_daily_loss_pct * Reference(rm)
        THEN [ok |-> FALSE, rm |-> rm]
        ELSE IF d.consecutive_losses >= Limits.max_consecutive_losses
        THEN [ok |-> FALSE,
              rm |-> [rm EXCEPT !.daily.cooldown_until =
                                   t + Limits.loss_streak_cooldown_mins * 60]]
        ELSE IF rm.capital <= 0 THEN [ok |-> FALSE, rm |-> rm]
        ELSE [ok |-> TRUE, rm |-> rm]

\* can_late_window_trade() at time t
CanLateWindowTrade(rm0, t) ==
    LET rm == ResetDailyIfNeeded(rm0, t)
        d == rm.daily
    IN  IF d.late_window_trades >= Limits.late_window_max_daily_trades
        THEN [ok |-> FALSE, rm |-> rm]
        ELSE IF d.late_window_spent * 100 >= Reference(rm) * Limits.late_window_budget_pct
        THEN [ok |-> FALSE, rm |-> rm]
        ELSE IF rm.capital <= 0 THEN [ok |-> FALSE, rm |-> rm]
        ELSE [ok |-> TRUE, rm |-> rm]

\* can_trade_5m() without its cooldown test
CanTrade5mNoCooldown(rm0, t) ==
    LET rm == ResetDailyIfNeeded(rm0, t)
        d == rm.daily
    IN  IF d.trades_5m >= Limits.fivem_max_daily_trades
        THEN [ok |-> FALSE, rm |-> rm]
        ELSE IF d.spent_5m * 100 >= Reference(rm) * Limits.fivem_budget_pct
        THEN [ok |-> FALSE, rm |-> rm]
        ELSE IF Reference(rm) > 0
                /\ (-Min(0, d.pnl_5m)) * 100 >= Limits.fivem_max_daily_loss_pct * Reference(rm)
        THEN [ok |-> FALSE, rm |-> rm]
        ELSE IF d.consecutive_losses_5m >= Limits.fivem_max_consecutive_losses
        THEN [ok |-> FALSE,
              rm |-> [rm EXCEPT !.daily.cooldown_until_5m =
                                   t + Limits.fivem_cooldown_mins * 60,
                                !.daily.consecutive_losses_5m = 0]]
        ELSE IF rm.capital <= 0 THEN [ok |-> FALSE, rm |-> rm]
        ELSE [ok |-> TRUE, rm |-> rm]

\* can_trade_5m() at time t
CanTrade5m(rm0, t) ==
    LET rm == ResetDailyIfNeeded(rm0, t)
        d == rm.daily
    IN  IF t < d.cooldown_until_5m THEN [ok |-> FALSE, rm |-> rm]
        ELSE IF d.trades_5m >= Limits.fivem_max_daily_trades
        THEN [ok |-> FALSE, rm |-> rm]
        ELSE IF d.spent_5m * 100 >= Reference(rm) * Limits.fivem_budget_pct
        THEN [ok |-> FALSE, rm |-> rm]
        ELSE IF Reference(rm) > 0
                /\ (-Min(0, d.pnl_5m)) * 100 >= Limits.fivem_max_daily_loss_pct * Reference(rm)
        THEN [ok |-> FALSE, rm |-> rm]
        ELSE IF d.consecutive_losses_5m >= Limits.fivem_max_consecutive_losses
        THEN [ok |-> FALSE,
              rm |-> [rm EXCEPT !.daily.cooldown_until_5m =
                                   t + Limits.fivem_cooldown_mins * 60,
                                !.daily.consecutive_losses_5m = 0]]
        ELSE IF rm.capital <= 0 THEN [ok |-> FALSE, rm |-> rm]
        ELSE [ok |-> TRUE, rm |-> rm]

\* the sizes without the final cap by the capital
CalculateSizeNoCapitalCap(engine, rm, confidence) ==
    IF rm.capital <= 0 THEN 0
    ELSE LET kelly == rm.capital * Max(0, confidence - 50)
             capped ==
                IF engine = "main"
                THEN Min(Min(kelly, rm.capital * Limits.max_trade_pct * 2),
                         Limits.max_trade_size_usd * 200)
                ELSE IF engine = "late"
                THEN Min(kelly, Limits.late_window_max_trade_usd * 200)
                ELSE Min(kelly, Limits.fivem_max_trade_usd * 200)
             floored == Max(capped, Limits.min_trade_size_usd * 200)
         IN  100 * RoundHalfEven(floored, 20000)

\* calculate_position_size, calculate_late_window_size and calculate_5m_size
\* for a confidence in percent.  With kelly_fraction = 0.25 the fractional
\* Kelly (2 * conf - 1) * 0.25 is (conf - 50) / 200; the sizes are kept as
\* numerators over 200 until the final round(size, 2).
CalculateSize(engine, rm, confidence) ==
    IF rm.capital <= 0 THEN 0
    ELSE LET kelly == rm.capital * Max(0, confidence - 50)
             capped ==
                IF engine = "main"
                THEN Min(Min(kelly, rm.capital * Limits.max_trade_pct * 2),
                         Limits.max_trade_size_usd * 200)
                ELSE IF engine = "late"
                THEN Min(kelly, Limits.late_window_max_trade_usd * 200)
                ELSE Min(kelly, Limits.fivem_max_trade_usd * 200)
             floored == Max(capped, Limits.min_trade_size_usd * 200)
             size == Min(floored, rm.capital * 200)
         IN  100 * RoundHalfEven(size, 20000)

\* record_trade(pnl) at time t
RecordTrade(rm0, pnl, t) ==
    LET rm == ResetDailyIfNeeded(rm0, t)
    IN  [rm EXCEPT
           !.capital = @ + pnl,
           !.total_pnl = @ + pnl,
           !.daily.trades = @ + 1,
           !.daily.total_pnl = @ + pnl,
           !.daily.wins = IF pnl >= 0 THEN @ + 1 ELSE @,
           !.daily.losses = IF pnl >= 0 THEN @ ELSE @ + 1,
           !.daily.consecutive_losses = IF pnl >= 0 THEN 0 ELSE @ + 1]

\* record_late_window_trade(size_usd, pnl) at time t
RecordLateWindowTrade(rm0, size_usd, pnl, t) ==
    LET rm == ResetDailyIfNeeded(rm0, t)
    IN  [rm EXCEPT
           !.daily.late_window_trades = @ + 1,
           !.daily.late_window_spent = @ + size_usd,
           !.daily.late_window_pnl = @ + pnl]

\* record_5m_trade(size_usd, pnl) at time t
Record5mTrade(rm0, size_usd, pnl, t) ==
    LET rm == ResetDailyIfNeeded(rm0, t)
        counted == [rm EXCEPT !.daily.trades_5m = @ + 1,
                              !.daily.spent_5m = @ + size_usd]
    IN  IF pnl = 0 THEN counted
        ELSE [counted EXCEPT
                !.capital = @ + pnl,
                !.total_pnl = @ + pnl,
                !.daily.pnl_5m = @ + pnl,
                !.daily.wins_5m = IF pnl >= 0 THEN @ + 1 ELSE @,
                !.daily.losses_5m = IF pnl >= 0 THEN @ ELSE @ + 1,
                !.daily.consecutive_losses_5m = IF pnl >= 0 THEN 0 ELSE @ + 1]

\* The engines that place directional orders, and the task each runs in:
\* the 15m cycle and the late-window sweep in the main loop, the 5m cycle
\* in the 5m loop.
Engines == {"main", "late", "fivem"}
TaskOf(engine) == IF engine = "fivem" THEN "fivem" ELSE "main"

\* decision.confidence in percent, and the entry prices in cents
Confidences == {60, 92}
EntryPrices == {80}

IdleTask == [pc |-> "idle", engine |-> "none", confidence |-> 0, size |-> 0,
             list |-> <<>>, live |-> TRUE, i |-> 0, resolved |-> <<>>]

\* The trade ids of a list of records, in order.
Ids(recs) == [k \in DOMAIN recs |-> recs[k].trade_id]

\* The record with trade id id, in the active list or in the archive.
Lookup(recs, arch, id) ==
    LET all == arch \o recs
    IN  all[CHOOSE k \in DOMAIN all : all[k].trade_id = id]

\* r.outcome and r.pnl as check_resolutions sets them, on the record id.
Resolve(recs, id, outcome) ==
    [k \in DOMAIN recs |->
        IF recs[k].trade_id # id THEN recs[k]
        ELSE [recs[k] EXCEPT
                !.outcome = outcome,
                !.pnl = IF outcome = "win"
                        THEN RoundHalfEven(recs[k].size_usd * 100, recs[k].entry_price)
                               - recs[k].size_usd
                        ELSE -recs[k].size_usd]]

\* Where a task goes after its resolution step: the main loop back to its
\* polling, the 5m loop to its entry test, which lets it into a cycle or not.
AfterResolution(t) == IF t = "main" THEN {"idle"} ELSE {"idle", "entry"}

\* check_resolutions from the record at index f.i on: the records already
\* resolved are skipped up to the next pending one, whose market lookup is
\* awaited; at the end of the list _prune_resolved archives the resolved
\* records older than an hour and rebinds _trade_records, so that a pass of
\* the other task that is under way goes on over the list it started with.
Continue(t, f, recs, arch) ==
    LET L == IF f.live THEN Ids(recs) ELSE f.list
        pending == {j \in f.i..Len(L) : Lookup(recs, arch, L[j]).outcome = "pending"}
        aged(r) == r.outcome # "pending" /\ r.timestamp < now - 3600
        o == IF t = "main" THEN "fivem" ELSE "main"
    IN  IF pending # {}
        THEN /\ task' = [task EXCEPT ![t] =
                  [f EXCEPT !.pc = "lookup",
                            !.i = CHOOSE j \in pending : \A k \in pending : j <= k]]
             /\ trade_records' = recs
             /\ archived_trades' = arch
        ELSE /\ trade_records' = SelectSeq(recs, LAMBDA r : ~aged(r))
             /\ archived_trades' = arch \o SelectSeq(recs, aged)
             /\ \E nxt \in AfterResolution(t) :
                   task' = [task EXCEPT
                      ![t] = [f EXCEPT !.pc = IF f.resolved # <<>> THEN "route" ELSE nxt,
                                       !.list = <<>>, !.live = TRUE, !.i = 0],
                      ![o] = IF task[o].pc = "lookup" /\ task[o].live
                             THEN [task[o] EXCEPT !.live = FALSE, !.list = Ids(recs)]
                             ELSE task[o]]

\* can_trade / can_late_window_trade / can_trade_5m in a cycle that has a
\* decision to trade.  A late-window sweep sizes and submits at once; the
\* 15m and 5m cycles first await discover_markets.
Gate(engine) ==
    /\ task[TaskOf(engine)].pc = IF engine = "fivem" THEN "entry" ELSE "idle"
    /\ Len(trade_records) + Len(archived_trades)
          + Cardinality({t \in DOMAIN task : task[t].pc \in {"discover", "placing"}})
          < MaxTrades
    /\ \E confidence \in Confidences :
          LET g == IF engine = "main" THEN CanTrade(risk_manager, now)
                   ELSE IF engine = "late" THEN CanLateWindowTrade(risk_manager, now)
                   ELSE CanTrade5m(risk_manager, now)
              size == CalculateSize("late", g.rm, confidence)
          IN  /\ risk_manager' = g.rm
              /\ task' = [task EXCEPT ![TaskOf(engine)] =
                    IF ~g.ok THEN IdleTask
                    ELSE IF engine # "late"
                    THEN [IdleTask EXCEPT !.pc = "discover", !.engine = engine,
                                          !.confidence = confidence]
                    ELSE IF size <= 0 THEN IdleTask
                    ELSE [IdleTask EXCEPT !.pc = "placing", !.engine = engine,
                                          !.confidence = confidence, !.size = size]]
    /\ UNCHANGED <<trade_records, now, fivem_trade_ids, archived_trades, venue,
                   pnl_log, placed, notRisk>>

\* discover_markets has answered: without a tradeable market of the window
\* the cycle returns, otherwise it sizes the trade and submits the order.
Order(engine) ==
    /\ task[TaskOf(engine)].pc = "discover"
    /\ task[TaskOf(engine)].engine = engine
    /\ \E tradeable \in BOOLEAN :
          LET f == task[TaskOf(engine)]
              size == CalculateSize(engine, risk_manager, f.confidence)
          IN  task' = [task EXCEPT ![TaskOf(engine)] =
                 IF ~tradeable \/ size <= 0 THEN IdleTask
                 ELSE [f EXCEPT !.pc = "placing", !.size = size]]
    /\ UNCHANGED <<risk_manager, trade_records, now, fivem_trade_ids,
                   archived_trades, venue, pnl_log, placed, notRisk>>

\* place_order has returned a trade or None.  A 5m trade is tagged and
\* recorded, a late-window trade recorded, a 15m trade neither; the 15m
\* cycle goes on to its resolution step.
Placed(engine) ==
    /\ task[TaskOf(engine)].pc = "placing"
    /\ task[TaskOf(engine)].engine = engine
    /\ LET f == task[TaskOf(engine)]
           id == Len(trade_records) + Len(archived_trades) + 1
           day == Today(now)
       IN  /\ \E price \in EntryPrices, trade \in BOOLEAN :
                IF trade
                THEN /\ trade_records' = Append(trade_records,
                           TradeRecord(id, engine, TRUE, FALSE, f.size, price, now))
                     /\ fivem_trade_ids' = IF engine = "fivem"
                                           THEN fivem_trade_ids \cup {id}
                                           ELSE fivem_trade_ids
                     /\ risk_manager' =
                           IF engine = "fivem"
                           THEN Record5mTrade(risk_manager, f.size, 0, now)
                           ELSE IF engine = "late"
                           THEN RecordLateWindowTrade(risk_manager, f.size, 0, now)
                           ELSE risk_manager
                     /\ placed' = IF placed.day = day
                                  THEN [placed EXCEPT ![engine] = @ + 1]
                                  ELSE [k \in Engines \cup {"day"} |->
                                          IF k = "day" THEN day
                                          ELSE IF k = engine THEN 1 ELSE 0]
                ELSE UNCHANGED <<trade_records, fivem_trade_ids, risk_manager, placed>>
           /\ task' = [task EXCEPT ![TaskOf(engine)] =
                         IF engine = "main" THEN [IdleTask EXCEPT !.pc = "resolve"]
                         ELSE IdleTask]
    /\ UNCHANGED <<now, archived_trades, venue, pnl_log, notRisk>>

\* check_resolutions is called: by the 15m cycle at its step 8, by the 5m
\* loop at the top of every tick.
ResBegin(t) ==
    /\ task[t].pc = IF t = "main" THEN "resolve" ELSE "idle"
    /\ Continue(t, [IdleTask EXCEPT !.i = 1], trade_records, archived_trades)
    /\ UNCHANGED <<risk_manager, now, fivem_trade_ids, venue, pnl_log, placed,
                   notRisk>>

\* get_market has answered for the record the pass is at: the market is not
\* closed, has no winner yet or the lookup failed, and the record is left
\* pending; or it names the winner, and the record is resolved and reported.
ResLookup(t) ==
    /\ task[t].pc = "lookup"
    /\ LET f == task[t]
           L == IF f.live THEN Ids(trade_records) ELSE f.list
           id == L[f.i]
           g == [f EXCEPT !.i = f.i + 1]
       IN  \/ Continue(t, g, trade_records, archived_trades)
           \/ /\ venue[id] # "open"
              /\ Continue(t, [g EXCEPT !.resolved = Append(f.resolved, id)],
                          Resolve(trade_records, id, venue[id]),
                          Resolve(archived_trades, id, venue[id]))
    /\ UNCHANGED <<risk_manager, now, fivem_trade_ids, venue, pnl_log, placed,
                   notRisk>>

\* The caller's loop over the resolved records, one record per step (it
\* awaits the notification after each): a tagged id goes to record_5m_trade
\* and is untagged, any other to record_trade.
Route(t) ==
    /\ task[t].pc = "route"
    /\ LET f == task[t]
           id == Head(f.resolved)
           r == Lookup(trade_records, archived_trades, id)
           is_5m == id \in fivem_trade_ids
       IN  /\ risk_manager' = IF is_5m THEN Record5mTrade(risk_manager, 0, r.pnl, now)
                              ELSE RecordTrade(risk_manager, r.pnl, now)
           /\ fivem_trade_ids' = fivem_trade_ids \ {id}
           /\ pnl_log' = Append(pnl_log, [trade_id |-> id,
                                          bucket |-> IF is_5m THEN "fivem" ELSE "main"])
           /\ \E nxt \in AfterResolution(t) :
                 task' = [task EXCEPT ![t] =
                    IF Len(f.resolved) > 1 THEN [f EXCEPT !.resolved = Tail(f.resolved)]
                    ELSE [IdleTask EXCEPT !.pc = nxt]]
    /\ UNCHANGED <<trade_records, now, archived_trades, venue, placed, notRisk>>

\* The venue closes the market of a trade and declares the winner.
MarketResolves ==
    /\ \E id \in 1..(Len(trade_records) + Len(archived_trades)),
          outcome \in {"win", "loss"} :
          /\ venue[id] = "open"
          /\ venue' = [venue EXCEPT ![id] = outcome]
    /\ UNCHANGED <<risk_manager, trade_records, now, fivem_trade_ids,
                   archived_trades, task, pnl_log, placed, notRisk>>

\* Six hours pass, between two steps of the loops.
RiskTick ==
    /\ \A t \in DOMAIN task : task[t].pc = "idle"
    /\ now < RiskStart + 21600 * MaxRiskTicks
    /\ now' = now + 21600
    /\ UNCHANGED <<riskVars, trade_records, notRisk>>

\* The RiskManager and the orchestrator's bookkeeping as __init__ leaves
\* them, with a bankroll of 40 USD.
RiskIdle ==
    /\ risk_manager = [capital |-> 400000, total_pnl |-> 0,
                       daily |-> DailyStats(0, 400000)]
    /\ fivem_trade_ids = {}
    /\ archived_trades = <<>>
    /\ venue = [id \in 1..MaxTrades |-> "open"]
    /\ task = [t \in {"main", "fivem"} |-> IdleTask]
    /\ pnl_log = <<>>
    /\ placed = [k \in Engines \cup {"day"} |-> 0]
    /\ api = [calls |-> 0, op |-> "none", size_usd |-> 0, pnl |-> 0,
              confidence |-> 0, result |-> 0,
              before |-> [capital |-> 400000, total_pnl |-> 0,
                          daily |-> DailyStats(0, 400000)],
              today |-> 0, reset |-> FALSE, day_base |-> 0]
    /\ lw = [traded_markets |-> {}, queue |-> <<>>,
             trades |-> [m \in {1, 2} |-> 0], deduped |-> FALSE,
             sweeps |-> 0, cycles |-> 0]
    /\ decision = [engine |-> "none", direction |-> "hold", confidence |-> 0,
                   should_trade |-> FALSE, max_confidence |-> 0, inp |-> <<>>]

RiskNext ==
    \/ \E e \in Engines : Gate(e)
    \/ \E e \in {"main", "fivem"} : Order(e)
    \/ \E e \in Engines : Placed(e)
    \/ \E t \in {"main", "fivem"} : ResBegin(t)
    \/ \E t \in {"main", "fivem"} : ResLookup(t)
    \/ \E t \in {"main", "fivem"} : Route(t)
    \/ MarketResolves
    \/ RiskTick

-----------------------------------------------------------------------------
(***************************************************************************)
(* The window scheduler: the main loop of run() and _5m_loop, each asleep  *)
(* between two ticks or inside a trading cycle.  Times are seconds of the  *)
(* hour; a step of the clock goes to the next moment a loop wakes up.      *)
(***************************************************************************)

\* BotConfig's clock-sync timing and Active5mConfig's, in seconds, and the
\* throttle of _refresh_directional_interval.
Timing ==
    [entry_lead_secs |-> 60, entry_window_secs |-> 30, sleep_poll_secs |-> 5,
     strategy_delay_secs |-> 45,
     fivem_entry_lead_secs |-> 55, fivem_entry_window_secs |-> 20,
     fivem_strategy_delay_secs |-> 45,
     refresh_secs |-> 45]

\* _next_boundary with interval W, and _next_5m_boundary with W = 5: the
\* next minute of the hour that is a multiple of W, or the next hour.
NextBoundary(t, W) ==
    LET minute == (t \div 60) % 60
        hour == t - (t % 3600)
        next_min == ((minute \div W) + 1) * W
    IN  IF next_min >= 60 THEN hour + 3600 ELSE hour + next_min * 60

\* _seconds_until_entry
SecondsUntilEntry(t, W) == NextBoundary(t, W) - Timing.entry_lead_secs - t

\* the entry window test moved to the entry_window_secs before the lead
IsInEntryWindowEarly(t, W) ==
    /\ 0 <= SecondsUntilEntry(t, W)
    /\ SecondsUntilEntry(t, W) <= Timing.entry_window_secs

\* _is_in_entry_window
IsInEntryWindow(t, W) ==
    /\ -Timing.entry_window_secs <= SecondsUntilEntry(t, W)
    /\ SecondsUntilEntry(t, W) <= 0

\* secs_until of _is_in_5m_entry_window and of _5m_loop's reset
SecondsUntil5mEntry(t) == NextBoundary(t, 5) - Timing.fivem_entry_lead_secs - t

\* _is_in_5m_entry_window
IsIn5mEntryWindow(t) ==
    /\ -Timing.fivem_entry_window_secs <= SecondsUntil5mEntry(t)
    /\ SecondsUntil5mEntry(t) <= 0

IsAlso15mBoundaryOfNow(t) == ((t \div 60) % 60) % 15 = 0
\* _is_also_15m_boundary
IsAlso15mBoundary(t) == ((NextBoundary(t, 5) \div 60) % 60) % 15 = 0

\* The intervals of the tradeable markets a discovery can return.
Discovered == {{}, {5}, {15}, {5, 15}}

\* _refresh_directional_interval at time t, discover_markets returning
\* markets of the intervals S: the bot's fields afterwards.
RefreshDirectionalInterval(b, t, S) ==
    IF config.active_5m THEN [b EXCEPT !.directional_interval_mins = 15]
    ELSE IF t - b.last_interval_refresh < Timing.refresh_secs THEN b
    ELSE LET r == [b EXCEPT !.last_interval_refresh = t]
             target == IF 15 \in S THEN 15 ELSE 5
         IN  IF S = {} \/ target = b.directional_interval_mins THEN r
             ELSE [r EXCEPT !.directional_interval_mins = target,
                            !.traded_this_window = FALSE]

\* The hedge orders check_hedge makes a cycle submit: one per open trade
\* whose direction contradicts the decision, none when hedging is off.
Hedges == IF config.enable_hedge THEN 0..MaxHedges ELSE {0}

AfterCycle5mFlagUnset(b) == b
\* _5m_loop after _5m_trading_cycle has returned
AfterCycle5m(b) == [b EXCEPT !.fivem_traded_this_window = TRUE]

\* The seconds the awaits of a trading cycle take on top of its strategy
\* delay: a cycle that is over within its entry window, and one that lasts
\* into the next windows.  The awaits of a tick outside a cycle take none.
CycleSecs == {1, 3, 240}

\* The boundaries a run can target.
Boundaries ==
    {300 * k : k \in ((SchedStart \div 300) + 1)..((SchedEnd \div 300) + 1)}

Asleep(until) == [pc |-> "sleep", wake |-> until, boundary |-> 0]
InCycle(until, boundary) == [pc |-> "cycle", wake |-> until, boundary |-> boundary]

\* The history with, for an engine and the boundary it targets, so many
\* more cycles run, place_order calls made and entry windows skipped.
Logged(engine, boundary, cycles, orders, skips) ==
    [cycle_log EXCEPT ![engine][boundary] =
        [cycles |-> @.cycles + cycles, orders |-> @.orders + orders,
         skips |-> @.skips + skips]]

\* One iteration of run()'s loop up to its sleep or to the call of
\* _trading_cycle: the interval refresh, then the entry window test; outside
\* the window the late-window check and the reset of the flag.
MainTick ==
    /\ loops["main"].pc = "sleep"
    /\ loops["main"].wake = now
    /\ \E S \in IF config.active_5m
                    \/ now - bot.last_interval_refresh < Timing.refresh_secs
                 THEN {{}} ELSE Discovered :
          LET b == RefreshDirectionalInterval(bot, now, S)
              W == b.directional_interval_mins
              secs == SecondsUntilEntry(now, W)
          IN  IF IsInEntryWindow(now, W) /\ ~b.traded_this_window
              THEN /\ bot' = b
                   /\ \E c \in CycleSecs, anchor \in BOOLEAN :
                         loops' = [loops EXCEPT !["main"] =
                            InCycle(now + c + (IF anchor
                                               THEN Timing.strategy_delay_secs
                                               ELSE 0),
                                    NextBoundary(now, W))]
              ELSE /\ bot' = [b EXCEPT !.traded_this_window =
                                 IF ~IsInEntryWindow(now, W)
                                    /\ secs > 0 /\ secs < Timing.entry_lead_secs
                                 THEN FALSE ELSE @]
                   /\ loops' = [loops EXCEPT !["main"] =
                                  Asleep(now + Timing.sleep_poll_secs)]
    /\ UNCHANGED <<now, config, cycle_log, notSched>>

\* _trading_cycle returns: it has made no place_order call (an early
\* return), or the calls of its hedge pass, or those and the directional
\* one; run() sets the flag and sleeps.
MainCycleEnd ==
    /\ loops["main"].pc = "cycle"
    /\ loops["main"].wake = now
    /\ \E hedges \in Hedges, directional \in 0..1 :
          cycle_log' = Logged("main", loops["main"].boundary, 1,
                              hedges + directional, 0)
    /\ bot' = [bot EXCEPT !.traded_this_window = TRUE]
    /\ loops' = [loops EXCEPT !["main"] = Asleep(now + Timing.sleep_poll_secs)]
    /\ UNCHANGED <<now, config, notSched>>

\* One iteration of _5m_loop up to its sleep or to the call of
\* _5m_trading_cycle: the resolution step, then the entry window test, the
\* skip of a boundary that is also a 15m boundary, and the reset.
FivemTick ==
    /\ loops["fivem"].pc = "sleep"
    /\ loops["fivem"].wake = now
    /\ LET secs == SecondsUntil5mEntry(now)
           boundary == NextBoundary(now, 5)
           run == /\ IsIn5mEntryWindow(now)
                  /\ ~IsAlso15mBoundary(now)
                  /\ ~bot.fivem_traded_this_window
       IN  IF run
           THEN /\ \E c \in CycleSecs, anchor \in BOOLEAN :
                      loops' = [loops EXCEPT !["fivem"] =
                         InCycle(now + c + (IF anchor
                                            THEN Timing.fivem_strategy_delay_secs
                                            ELSE 0),
                                 boundary)]
                /\ UNCHANGED <<bot, cycle_log>>
           ELSE /\ bot' = [bot EXCEPT !.fivem_traded_this_window =
                              IF IsIn5mEntryWindow(now) THEN TRUE
                              ELSE IF secs > 0 /\ secs < Timing.fivem_entry_lead_secs
                              THEN FALSE ELSE @]
                /\ cycle_log' =
                      IF IsIn5mEntryWindow(now) /\ IsAlso15mBoundary(now)
                         /\ ~bot.fivem_traded_this_window
                      THEN Logged("fivem", boundary, 0, 0, 1)
                      ELSE cycle_log
                /\ loops' = [loops EXCEPT !["fivem"] =
                               Asleep(now + Timing.sleep_poll_secs)]
    /\ UNCHANGED <<now, config, notSched>>

\* _5m_trading_cycle returns, with or without its one place_order call;
\* _5m_loop sets the flag and sleeps.
FivemCycleEnd ==
    /\ loops["fivem"].pc = "cycle"
    /\ loops["fivem"].wake = now
    /\ \E order \in 0..1 :
          cycle_log' = Logged("fivem", loops["fivem"].boundary, 1, order, 0)
    /\ bot' = AfterCycle5m(bot)
    /\ loops' = [loops EXCEPT !["fivem"] = Asleep(now + Timing.sleep_poll_secs)]
    /\ UNCHANGED <<now, config, notSched>>

\* Time passes until the next moment a loop wakes up.
SchedAdvance ==
    LET running == {l \in DOMAIN loops : loops[l].pc # "off"}
    IN  /\ running # {}
        /\ \A l \in running : loops[l].wake > now
        /\ \E l \in running :
              /\ \A k \in running : loops[l].wake <= loops[k].wake
              /\ loops[l].wake <= SchedEnd
              /\ now' = loops[l].wake
        /\ UNCHANGED <<schedVars, notSched>>

\* The scheduler's state as __init__ leaves it, no loop started.
SchedIdle ==
    /\ config = [active_5m |-> FALSE, enable_hedge |-> FALSE]
    /\ bot = [directional_interval_mins |-> 15, last_interval_refresh |-> -3600,
              traded_this_window |-> FALSE, fivem_traded_this_window |-> FALSE]
    /\ loops = [l \in {"main", "fivem"} |-> [pc |-> "off", wake |-> 0, boundary |-> 0]]
    /\ cycle_log = [e \in {"main", "fivem"} |->
                      [b \in Boundaries |-> [cycles |-> 0, orders |-> 0, skips |-> 0]]]

\* run() starts the main loop, and the 5m loop if it is enabled.
SchedInit ==
    /\ now = SchedStart
    /\ config \in [active_5m : BOOLEAN, enable_hedge : BOOLEAN]
    /\ bot = [directional_interval_mins |-> 15, last_interval_refresh |-> -3600,
              traded_this_window |-> FALSE, fivem_traded_this_window |-> FALSE]
    /\ loops = [l \in {"main", "fivem"} |->
                  IF l = "main" \/ config.active_5m THEN Asleep(SchedStart)
                  ELSE [pc |-> "off", wake |-> 0, boundary |-> 0]]
    /\ cycle_log = [e \in {"main", "fivem"} |->
                      [b \in Boundaries |-> [cycles |-> 0, orders |-> 0, skips |-> 0]]]

SchedNext ==
    \/ MainTick
    \/ MainCycleEnd
    \/ FivemTick
    \/ FivemCycleEnd
    \/ SchedAdvance

-----------------------------------------------------------------------------
(***************************************************************************)
(* The RiskManager's public methods called directly, in any order and with *)
(* any arguments (core/risk_manager.py).  Money is in 1/10000 USD, the     *)
(* confidence in percent.                                                  *)
(***************************************************************************)

\* What a direct call of a RiskManager method leaves alone.
notRiskApi == <<order_type, po, trade_records, oracleVars, arbVars,
                schedVars, fivem_trade_ids, archived_trades, venue, task,
                pnl_log, placed, decision, mmVars, auxVars>>

\* The call just made: the method, its arguments, the manager before it,
\* what it returned, and the lifetime _total_pnl when the current day's
\* DailyStats were created.
Called(op, size_usd, pnl, confidence, result) ==
    [calls |-> api.calls + 1, op |-> op, size_usd |-> size_usd, pnl |-> pnl,
     confidence |-> confidence, result |-> result, before |-> risk_manager,
     today |-> Today(now),
     reset |-> risk_manager.daily.date # Today(now),
     day_base |-> IF risk_manager.daily.date # Today(now)
                  THEN risk_manager.total_pnl ELSE api.day_base]

\* record_trade(pnl), record_late_window_trade(size_usd, pnl) or
\* record_5m_trade(size_usd, pnl)
ApiRecord(op, size_usd, pnl) ==
    LET rm == IF op = "record_trade" THEN RecordTrade(risk_manager, pnl, now)
              ELSE IF op = "record_late_window_trade"
              THEN RecordLateWindowTrade(risk_manager, size_usd, pnl, now)
              ELSE Record5mTrade(risk_manager, size_usd, pnl, now)
    IN  /\ api.calls < MaxApiCalls
        /\ rm.capital <= MaxCapital
        /\ risk_manager' = rm
        /\ api' = Called(op, size_usd, pnl, 0, 0)
        /\ UNCHANGED <<now, lw, notRiskApi>>

\* can_trade(), can_late_window_trade() or can_trade_5m()
ApiGate(op) ==
    LET g == IF op = "can_trade" THEN CanTrade(risk_manager, now)
             ELSE IF op = "can_late_window_trade"
             THEN CanLateWindowTrade(risk_manager, now)
             ELSE CanTrade5m(risk_manager, now)
    IN  /\ api.calls < MaxApiCalls
        /\ risk_manager' = g.rm
        /\ api' = Called(op, 0, 0, 0, IF g.ok THEN 1 ELSE 0)
        /\ UNCHANGED <<now, lw, notRiskApi>>

\* calculate_position_size(confidence), calculate_late_window_size or
\* calculate_5m_size: no reset, no change of the manager
ApiSize(engine, confidence) ==
    /\ api.calls < MaxApiCalls
    /\ api' = [Called(engine, 0, 0, confidence,
                      CalculateSize(engine, risk_manager, confidence))
               EXCEPT !.reset = FALSE, !.day_base = api.day_base]
    /\ UNCHANGED <<now, risk_manager, lw, notRiskApi>>

\* Six hours pass between two calls.
ApiTick ==
    /\ now < RiskStart + 21600 * MaxApiTicks
    /\ now' = now + 21600
    /\ UNCHANGED <<risk_manager, api, lw, notRiskApi>>

RiskApiNext ==
    \/ \E op \in {"record_trade", "record_late_window_trade", "record_5m_trade"} :
         \E pnl \in {-395000, -300000, -10000, 0, 4600000} :
            ApiRecord(op, 10000, pnl)
    \/ \E op \in {"can_trade", "can_late_window_trade", "can_trade_5m"} :
         ApiGate(op)
    \/ \E e \in Engines : \E c \in {0, 60, 85, 100} : ApiSize(e, c)
    \/ ApiTick


-----------------------------------------------------------------------------
(***************************************************************************)
(* The late-window sweep of the main loop (bot.py, _late_window_check) and *)
(* the reset of its dedup set after a 15m trading cycle (run).             *)
(***************************************************************************)

\* the dedup set when place_order returned a trade, without the add
AfterLateWindowTradeNoAdd(traded_markets, condition_id) == traded_markets

\* self._late_window_traded_markets.add(market_lw_key)
AfterLateWindowTrade(traded_markets, condition_id) ==
    traded_markets \cup {condition_id}

\* _late_window_check up to its loop: the tradeable markets discovered, in
\* the order of the list (one market can be listed twice)
LwSweepBegin ==
    /\ lw.queue = <<>>
    /\ lw.sweeps < MaxSweeps
    /\ \E markets \in {<<1>>, <<2>>, <<1, 2>>, <<2, 1>>, <<1, 1>>} :
         lw' = [lw EXCEPT !.queue = markets, !.sweeps = @ + 1]
    /\ UNCHANGED <<now, risk_manager, api, notRiskApi>>

\* One iteration of the loop over the tradeable markets.  skipped: the
\* market is outside the late-window zone, a 5m market, without anchor or
\* a HOLD; filled: place_order was called (the token was cheap enough) and
\* returned a trade.
LwMarket ==
    /\ lw.queue # <<>>
    /\ LET condition_id == Head(lw.queue)
           can == CanLateWindowTrade(risk_manager, now)
       IN  \E skipped \in BOOLEAN, filled \in BOOLEAN, c \in {80, 95} :
             IF skipped
             THEN /\ lw' = [lw EXCEPT !.queue = Tail(@)]
                  /\ UNCHANGED risk_manager
             ELSE IF condition_id \in lw.traded_markets
             THEN /\ lw' = [lw EXCEPT !.queue = Tail(@), !.deduped = TRUE]
                  /\ UNCHANGED risk_manager
             ELSE IF ~can.ok
             THEN /\ lw' = [lw EXCEPT !.queue = <<>>]
                  /\ risk_manager' = can.rm
             ELSE IF CalculateSize("late", can.rm, c) <= 0 \/ ~filled
             THEN /\ lw' = [lw EXCEPT !.queue = Tail(@)]
                  /\ risk_manager' = can.rm
             ELSE /\ lw' = [lw EXCEPT
                              !.queue = Tail(@),
                              !.traded_markets =
                                  AfterLateWindowTrade(@, condition_id),
                              !.trades[condition_id] = @ + 1]
                  /\ risk_manager' =
                        RecordLateWindowTrade(
                            can.rm, CalculateSize("late", can.rm, c), 0, now)
    /\ UNCHANGED <<now, api, notRiskApi>>

\* run: a 15m trading cycle has returned; the dedup set starts empty for
\* the new cycle.  The cycle runs between two sweeps, in the same task.
LwTradingCycle ==
    /\ lw.queue = <<>>
    /\ lw.cycles < MaxLwCycles
    /\ lw' = [lw EXCEPT !.traded_markets = {},
                        !.trades = [m \in {1, 2} |-> 0],
                        !.deduped = FALSE,
                        !.cycles = @ + 1]
    /\ UNCHANGED <<now, risk_manager, api, notRiskApi>>

LateNext == LwSweepBegin \/ LwMarket \/ LwTradingCycle

-----------------------------------------------------------------------------
(***************************************************************************)
(* The market maker (core/market_maker.py).  Mid prices and spreads are in *)
(* basis points of a dollar, quote prices in cents, sizes in tenths of a   *)
(* share, fills and budgets in thousandths of a dollar (price * size).     *)
(***************************************************************************)

\* MarketMakerConfig: the defaults with a budget and an imbalance cap that a
\* few fills reach, and a wide two-level variant with room for three orders.
MMConfigs ==
    {[spread_bps |-> 400, order_size_usd |-> 3000, num_levels |-> 1,
      level_spacing_bps |-> 100, refresh_secs |-> 15,
      max_inventory_imbalance |-> 3000, pull_before_close_secs |-> 60,
      max_daily_budget |-> 5000, max_open_orders |-> 4],
     [spread_bps |-> 1400, order_size_usd |-> 1000, num_levels |-> 2,
      level_spacing_bps |-> 100, refresh_secs |-> 15,
      max_inventory_imbalance |-> 3000, pull_before_close_secs |-> 60,
      max_daily_budget |-> 5000, max_open_orders |-> 3]}

\* end_date of the two markets discovery can return
EndTime(condition_id) == IF condition_id = 1 THEN MMStart + 75 ELSE MMStart + 900

\* the quote levels without the hard price filter
CalculateQuotesUnfiltered(cfg, mid_price) ==
    [k \in 1..(2 * cfg.num_levels) |->
        LET level == (k - 1) \div 2
            offset == cfg.spread_bps + level * cfg.level_spacing_bps
            price == IF k % 2 = 1
                     THEN RoundHalfEven(mid_price - offset, 100)
                     ELSE RoundHalfEven((10000 - mid_price) - offset, 100)
            shares == IF price > 0
                      THEN RoundHalfEven(cfg.order_size_usd, price) ELSE 0
        IN  [side |-> IF k % 2 = 1 THEN "YES" ELSE "NO", price |-> price,
             size |-> IF shares < 50 THEN 50 ELSE shares, level |-> level]]

\* _calculate_quotes(mid_price): per level a YES bid and a NO bid, rounded to
\* the cent, those priced outside [0.25, 0.75] dropped; round(usd / price, 1)
\* shares, at least 5
CalculateQuotes(cfg, mid_price) ==
    LET InRange(q) == ~(q.price < 25 \/ q.price > 75)
    IN  SelectSeq(CalculateQuotesUnfiltered(cfg, mid_price), InRange)

\* sum of price * size over a list of quotes
RECURSIVE FillUsd(_)
FillUsd(quotes) ==
    IF quotes = <<>> THEN 0
    ELSE Head(quotes).price * Head(quotes).size + FillUsd(Tail(quotes))

\* _detect_fills(): open_ids[c] is what the open-orders lookup for market c
\* returned (nothing when the lookup failed)
DetectFills(m, open_ids) ==
    LET Filled(q) == /\ q.order_id \notin open_ids[q.condition_id]
                     /\ q.order_id \notin m.cancelled_order_ids
        Yes(q) == Filled(q) /\ q.side = "BUY_YES"
        No(q) == Filled(q) /\ q.side = "BUY_NO"
        Open(q) == ~Filled(q)
    IN  [m EXCEPT
           !.daily_fills_usd = @ + FillUsd(SelectSeq(m.active_quotes, Filled)),
           !.yes_fills_usd = @ + FillUsd(SelectSeq(m.active_quotes, Yes)),
           !.no_fills_usd = @ + FillUsd(SelectSeq(m.active_quotes, No)),
           !.active_quotes = SelectSeq(m.active_quotes, Open)]

\* _cancel_all_for_market(condition_id), the maker's side of it.  Above 500
\* cancelled ids the set is cut to 200 of them in the set's iteration order:
\* keep_newest tells whether these are the latest ids or the oldest.
\* cancelled_old counts the cancelled ids of quotes from before the run.
CancelAllForMarket(m, condition_id, keep_newest) ==
    LET Other(q) == q.condition_id # condition_id
        Mine(q) == q.condition_id = condition_id
        mine == SelectSeq(m.active_quotes, Mine)
        ids == m.cancelled_order_ids
                 \cup {mine[k].order_id : k \in DOMAIN mine}
        pruned == Cardinality(ids) + m.cancelled_old > 500
    IN  [m EXCEPT
           !.active_quotes = SelectSeq(m.active_quotes, Other),
           !.cancelled_order_ids =
               IF pruned /\ ~keep_newest THEN {} ELSE ids,
           !.cancelled_old =
               IF ~pruned THEN @
               ELSE IF keep_newest THEN 200 - Cardinality(ids) ELSE 200]

\* the open-order test of the posting loop, always passing
CanPostAlways(m, cfg) == TRUE

\* _post_quotes: not (len(self._active_quotes) >= self.config.max_open_orders)
CanPost(m, cfg) == Len(m.active_quotes) < cfg.max_open_orders

\* self._active_quotes.append(ActiveQuote(...)) for an accepted order
AfterPost(m, q, order_id, condition_id) ==
    [m EXCEPT !.active_quotes =
        Append(@, [order_id |-> order_id, condition_id |-> condition_id,
                   side |-> IF q.side = "YES" THEN "BUY_YES" ELSE "BUY_NO",
                   price |-> q.price, size |-> q.size])]

\* The loop of _post_quotes over the quotes from index i on: accepted[i]
\* tells whether the venue accepts the order of quote i.  The result holds
\* the maker, the venue and the orders submitted.
RECURSIVE PostLoop(_, _, _, _, _, _, _)
PostLoop(st, cfg, quotes, i, accepted, condition_id, skip_side) ==
    IF i > Len(quotes) \/ ~CanPost(st.mm, cfg) THEN st
    ELSE IF quotes[i].side = skip_side
    THEN PostLoop(st, cfg, quotes, i + 1, accepted, condition_id, skip_side)
    ELSE LET q == quotes[i]
             id == st.venue.next_id
             sent == [st EXCEPT
                        !.log.submitted =
                            @ \cup {[side |-> q.side, price |-> q.price,
                                     size |-> q.size]}]
             next ==
                IF accepted[i]
                THEN [sent EXCEPT
                        !.mm = AfterPost(@, q, id, condition_id),
                        !.venue.open =
                            @ \cup {[id |-> id, condition_id |-> condition_id]},
                        !.venue.next_id = @ + 1]
                ELSE sent
         IN  PostLoop(next, cfg, quotes, i + 1, accepted, condition_id,
                      skip_side)

\* run: one iteration up to the await of discovery: the daily reset, fill
\* detection and the pull of expiring quotes.  lookup_ok[c]: the open-orders
\* lookup of market c succeeds.  A pull cancels the first expiring market
\* and then raises on MMStats.pulls_before_close, which ends the cycle.
MMCycleBegin ==
    /\ mm.pc = "ready" /\ mm.running
    /\ \E lookup_ok \in [{1, 2} -> BOOLEAN], keep_newest \in BOOLEAN :
         LET reset == IF now - mm.day_start > 86400
                      THEN [mm EXCEPT !.daily_fills_usd = 0,
                                      !.yes_fills_usd = 0,
                                      !.no_fills_usd = 0,
                                      !.cancelled_order_ids = {},
                                      !.cancelled_old = 0,
                                      !.day_start = now]
                      ELSE mm
             open_ids == [c \in {1, 2} |->
                            IF lookup_ok[c]
                            THEN {o.id : o \in {x \in mm_venue.open :
                                                   x.condition_id = c}}
                            ELSE {}]
             detected == DetectFills(reset, open_ids)
             Expiring(q) ==
                /\ q.condition_id \in detected.known_markets
                /\ EndTime(q.condition_id) - now <= mm_config.pull_before_close_secs
             expiring == SelectSeq(detected.active_quotes, Expiring)
         IN  /\ (\A c \in {1, 2} :
                   (\A k \in DOMAIN reset.active_quotes :
                        reset.active_quotes[k].condition_id # c) => lookup_ok[c])
             /\ (Cardinality(detected.cancelled_order_ids)
                   + detected.cancelled_old + Len(expiring) <= 500
                     => keep_newest)
             /\ \E cancel_ok \in BOOLEAN :
                  /\ (expiring = <<>> => cancel_ok)
                  /\ mm' = IF expiring = <<>>
                           THEN [detected EXCEPT !.pc = "discover",
                                                 !.cycle_count = @ + 1]
                           ELSE [CancelAllForMarket(
                                     detected, expiring[1].condition_id,
                                     keep_newest)
                                 EXCEPT !.pc = "sleep", !.cycle_count = @ + 1]
                  /\ mm_venue' =
                        IF expiring # <<>> /\ cancel_ok
                        THEN [mm_venue EXCEPT !.open =
                                {o \in @ : o.condition_id
                                             # expiring[1].condition_id}]
                        ELSE mm_venue
                  /\ mm_log' =
                        [mm_log EXCEPT
                           !.lookup_failed = {c \in {1, 2} : ~lookup_ok[c]},
                           !.pulled = IF expiring = <<>> THEN {}
                                      ELSE {expiring[1].condition_id}]
    /\ UNCHANGED <<now, mm_config, orderVars,
                 oracleVars, arbVars, riskVars, schedVars, auxVars>>

\* the imbalance check of _post_quotes, never skipping a side
SkipSideNone(m, cfg) == "none"

\* _get_imbalance and the imbalance check of _post_quotes: the side whose
\* quotes are skipped, none when the imbalance is below the cap
SkipSide(m, cfg) ==
    LET diff == m.yes_fills_usd - m.no_fills_usd
    IN  IF diff >= cfg.max_inventory_imbalance /\ diff > 0 THEN "YES"
        ELSE IF -diff >= cfg.max_inventory_imbalance /\ diff < 0 THEN "NO"
        ELSE "none"

\* run: from the markets discovery returned to the await of the fee rate in
\* _post_quotes: the most liquid market is chosen, every active quote is
\* cancelled, the mid is read and the gates of _post_quotes are passed.
\* chosen = 0: no tradeable market; mid_price = 0: no midpoint.
MMRequote ==
    /\ mm.pc = "discover"
    /\ \E chosen \in {0, 1, 2}, mid_price \in {0, 3600, 5000},
          cancel_ok \in BOOLEAN, keep_newest \in BOOLEAN :
         LET known == IF chosen = 0 THEN mm
                      ELSE [mm EXCEPT !.known_markets = @ \cup {chosen}]
             too_close ==
                EndTime(chosen) - now <= mm_config.pull_before_close_secs
             cancelled ==
                CancelAllForMarket(
                    CancelAllForMarket(known, 1, keep_newest), 2, keep_newest)
             skip_side == SkipSide(cancelled, mm_config)
         IN  IF chosen = 0 \/ too_close
             THEN /\ mid_price = 0 /\ cancel_ok /\ keep_newest
                  /\ mm' = [known EXCEPT !.pc = "sleep"]
                  /\ UNCHANGED mm_venue
             ELSE /\ (mm.active_quotes = <<>> => cancel_ok)
                  /\ (Cardinality(mm.cancelled_order_ids) + mm.cancelled_old
                        + Len(mm.active_quotes) <= 500 => keep_newest)
                  /\ mm_venue' =
                       IF cancel_ok
                       THEN [mm_venue EXCEPT !.open =
                               {o \in @ :
                                  \A k \in DOMAIN mm.active_quotes :
                                     mm.active_quotes[k].condition_id
                                       # o.condition_id}]
                       ELSE mm_venue
                  /\ mm' =
                       IF \/ mid_price = 0 \/ mid_price <= 3500
                          \/ mid_price >= 6500
                          \/ cancelled.daily_fills_usd
                               >= mm_config.max_daily_budget
                          \/ ~CanPost(cancelled, mm_config)
                       THEN [cancelled EXCEPT !.pc = "sleep"]
                       ELSE [cancelled EXCEPT
                               !.pc = "fee",
                               !.post = [condition_id |-> chosen,
                                         mid_price |-> mid_price,
                                         skip_side |-> skip_side]]
    /\ UNCHANGED <<now, mm_config, mm_log, orderVars,
                 oracleVars, arbVars, riskVars, schedVars, auxVars>>

\* _post_quotes from the fee rate on: the quotes are calculated and posted
\* one by one through place_maker_order; the venue rejects at most one of
\* them (rejected = 0: none).
MMPost ==
    /\ mm.pc = "fee"
    /\ LET quotes == CalculateQuotes(mm_config, mm.post.mid_price)
       IN  \E rejected \in 0..Len(quotes) :
             LET accepted == [k \in DOMAIN quotes |-> k # rejected]
                 st == PostLoop([mm |-> mm, venue |-> mm_venue, log |-> mm_log],
                                mm_config, quotes, 1, accepted,
                                mm.post.condition_id, mm.post.skip_side)
             IN  /\ mm' = [st.mm EXCEPT !.pc = "sleep"]
                 /\ mm_venue' = st.venue
                 /\ mm_log' = st.log
    /\ UNCHANGED <<now, mm_config, orderVars,
                 oracleVars, arbVars, riskVars, schedVars, auxVars>>

\* await asyncio.sleep(self.config.refresh_secs)
MMSleep ==
    /\ mm.pc = "sleep"
    /\ now + mm_config.refresh_secs <= MMStart + mm_config.refresh_secs * MaxMMCycles
    /\ now' = now + mm_config.refresh_secs
    /\ mm' = [mm EXCEPT !.pc = "ready"]
    /\ UNCHANGED <<mm_config, mm_venue, mm_log, orderVars,
                 oracleVars, arbVars, riskVars, schedVars, auxVars>>

\* The venue matches a resting maker order.
VenueFill ==
    /\ \E o \in mm_venue.open :
         mm_venue' = [mm_venue EXCEPT !.open = @ \ {o}]
    /\ UNCHANGED <<now, mm_config, mm, mm_log, orderVars,
                 oracleVars, arbVars, riskVars, schedVars, auxVars>>

\* stop(), called by shutdown() from the main task while the maker's task
\* is suspended at an await: the flag goes down and cancel_all_orders is
\* sent, whose failure is swallowed.
MMStop ==
    /\ mm.running
    /\ mm' = [mm EXCEPT !.running = FALSE]
    /\ \E cancel_ok \in BOOLEAN :
         mm_venue' = IF cancel_ok THEN [mm_venue EXCEPT !.open = {}]
                     ELSE mm_venue
    /\ UNCHANGED <<now, mm_config, mm_log, orderVars,
                 oracleVars, arbVars, riskVars, schedVars, auxVars>>

\* MarketMaker.__init__ with the default quoting, at time 0
MMIdle ==
    /\ mm_config = CHOOSE c \in MMConfigs : c.num_levels = 1
    /\ mm = [running |-> FALSE, pc |-> "ready", active_quotes |-> <<>>,
             daily_fills_usd |-> 0, yes_fills_usd |-> 0, no_fills_usd |-> 0,
             cancelled_order_ids |-> {}, cancelled_old |-> 0,
             day_start |-> 0, cycle_count |-> 0, known_markets |-> {},
             post |-> [condition_id |-> 0, mid_price |-> 0,
                       skip_side |-> "none"]]
    /\ mm_venue = [open |-> {}, next_id |-> 1]
    /\ mm_log = [submitted |-> {}, lookup_failed |-> {}, pulled |-> {}]

MMNext ==
    MMCycleBegin \/ MMRequote \/ MMPost \/ MMSleep \/ VenueFill \/ MMStop

-----------------------------------------------------------------------------
(***************************************************************************)
(* The StrategyEngine (strategies/signal_engine.py).  Prices are in USD,   *)
(* drifts in 1/10000 of a percent, strengths in percent, weights in        *)
(* thousandths, confidences in 1/10000.                                    *)
(***************************************************************************)

\* the confidence left as the weighted score gives it
CapConfidenceNone(confidence) == confidence

\* confidence = min(confidence, 0.92)
CapConfidence(confidence) == Min(confidence, 9200)

\* analyze(candles, current_price, open_price, fee_pct).  inp.data_ok: at
\* least 30 candles and a volatility within the configured range; inp.ind:
\* the momentum, rsi, macd and ema_cross signals computed from the candles;
\* inp.open_price = 0: no anchor; inp.fee_pct in hundredths of a percent.
Analyze(inp) ==
    LET anchored == inp.open_price > 0
        diff == inp.current_price - inp.open_price
        abs_diff == IF diff < 0 THEN -diff ELSE diff
        abs_drift == IF anchored THEN (abs_diff * 1000000) \div inp.open_price
                     ELSE 0
        pvo == [direction |-> IF abs_drift <= 400 THEN "hold"
                              ELSE IF diff > 0 THEN "up" ELSE "down",
                strength |-> Min(100, abs_drift \div 15)]
        weights == IF anchored THEN <<90, 75, 75, 60>>
                   ELSE <<300, 250, 250, 200>>
        Score(d) ==
            (IF anchored /\ pvo.direction = d THEN pvo.strength * 700 ELSE 0)
            + (IF inp.ind[1].direction = d THEN inp.ind[1].strength * weights[1] ELSE 0)
            + (IF inp.ind[2].direction = d THEN inp.ind[2].strength * weights[2] ELSE 0)
            + (IF inp.ind[3].direction = d THEN inp.ind[3].strength * weights[3] ELSE 0)
            + (IF inp.ind[4].direction = d THEN inp.ind[4].strength * weights[4] ELSE 0)
        Count(d) == Cardinality({k \in 1..4 : inp.ind[k].direction = d})
        up_score == Score("up")
        down_score == Score("down")
        total == up_score + down_score
        direction == IF total = 0 THEN "hold"
                     ELSE IF up_score > down_score THEN "up" ELSE "down"
        winner == IF up_score > down_score THEN up_score ELSE down_score
        raw == IF total = 0 THEN 0
               ELSE IF total >= 50000 THEN (10000 * winner) \div total
               ELSE winner \div 5
        confidence == CapConfidence(raw)
        disagree == IF direction = "up" THEN Count("down") ELSE Count("up")
        conflict ==
            /\ anchored /\ direction # "hold"
            /\ Count("up") + Count("down") >= 2
            /\ \/ abs_drift < 1000 /\ disagree >= 2
               \/ disagree >= 3
        edge == IF confidence >= 5000 THEN (confidence - 5000) * 2
                ELSE (5000 - confidence) * 2
        Decision(d, c, trade) ==
            [engine |-> "main", direction |-> d, confidence |-> c,
             should_trade |-> trade, max_confidence |-> 9200, inp |-> inp]
    IN  IF ~inp.data_ok THEN Decision("hold", 0, FALSE)
        ELSE IF /\ anchored /\ Count("up") = 2 /\ Count("down") = 2
                /\ abs_drift < 1200
        THEN Decision("hold", 0, FALSE)
        ELSE IF conflict THEN Decision(direction, confidence, FALSE)
        ELSE IF edge < inp.fee_pct /\ direction # "hold"
        THEN Decision(direction, confidence, FALSE)
        ELSE Decision(direction, confidence,
                      direction # "hold" /\ confidence >= 6000)

\* analyze_late_window(current_price, anchor_price, time_remaining_secs,
\* min_drift_pct, base_confidence, max_confidence, drift_scale_pct)
AnalyzeLateWindow(inp) ==
    LET diff == inp.current_price - inp.anchor_price
        abs_diff == IF diff < 0 THEN -diff ELSE diff
        abs_drift == (abs_diff * 1000000) \div inp.anchor_price
        scaled ==
            IF abs_drift >= inp.drift_scale_pct THEN inp.max_confidence
            ELSE inp.base_confidence
                   + ((abs_drift - inp.min_drift_pct)
                        * (inp.max_confidence - inp.base_confidence))
                       \div (inp.drift_scale_pct - inp.min_drift_pct)
        clamped == Min(inp.max_confidence, Max(inp.base_confidence, scaled))
        confidence == IF inp.time_remaining_secs < 60
                      THEN Min(inp.max_confidence, clamped + 200)
                      ELSE clamped
        Decision(d, c, trade) ==
            [engine |-> "late", direction |-> d, confidence |-> c,
             should_trade |-> trade, max_confidence |-> inp.max_confidence,
             inp |-> inp]
    IN  IF inp.anchor_price <= 0 THEN Decision("hold", 0, FALSE)
        ELSE IF abs_drift < inp.min_drift_pct THEN Decision("hold", 0, FALSE)
        ELSE Decision(IF diff > 0 THEN "up" ELSE "down", confidence, TRUE)

\* The engine is asked for a decision: the 15m and 5m cycles call analyze,
\* the late-window sweep analyze_late_window with the LateWindowConfig
\* values (max_confidence 0.95 by default).
SignalNext ==
    \/ /\ \E data_ok \in BOOLEAN, current_price \in {50010, 50075},
            open_price \in {0, 50000}, fee_pct \in {156, 2000},
            momentum \in {[direction |-> "up", strength |-> 100],
                          [direction |-> "up", strength |-> 30],
                          [direction |-> "down", strength |-> 100]},
            rsi \in {[direction |-> "up", strength |-> 100],
                     [direction |-> "down", strength |-> 100],
                     [direction |-> "hold", strength |-> 0]},
            macd \in {[direction |-> "up", strength |-> 100],
                      [direction |-> "down", strength |-> 100],
                      [direction |-> "hold", strength |-> 0]},
            ema_cross \in {[direction |-> "up", strength |-> 100],
                           [direction |-> "down", strength |-> 100]} :
            decision' = Analyze([data_ok |-> data_ok,
                                 current_price |-> current_price,
                                 open_price |-> open_price,
                                 fee_pct |-> fee_pct,
                                 ind |-> <<momentum, rsi, macd, ema_cross>>])
       /\ UNCHANGED <<now, orderVars, oracleVars, arbVars, schedVars, mmVars,
                      auxVars,
                      risk_manager, fivem_trade_ids, archived_trades, venue,
                      task, pnl_log, placed, api, lw>>
    \/ /\ \E current_price \in {49850, 50020, 50050, 50100, 50150},
            anchor_price \in {0, 50000}, time_remaining_secs \in {45, 100},
            max_confidence \in {9000, 9500} :
            decision' = AnalyzeLateWindow(
                            [current_price |-> current_price,
                             anchor_price |-> anchor_price,
                             time_remaining_secs |-> time_remaining_secs,
                             min_drift_pct |-> 800, base_confidence |-> 8000,
                             max_confidence |-> max_confidence,
                             drift_scale_pct |-> 2500])
       /\ UNCHANGED <<now, orderVars, oracleVars, arbVars, schedVars, mmVars,
                      auxVars,
                      risk_manager, fivem_trade_ids, archived_trades, venue,
                      task, pnl_log, placed, api, lw>>

-----------------------------------------------------------------------------
(***************************************************************************)
(* OracleEngine's persistent RTDS stream and its watchdog                  *)
(* (oracles/price_feed.py: start_rtds_stream, _rtds_watchdog, close).      *)
(* Times are in seconds.  A Binance message writes only the Binance        *)
(* buffer, which no definition below reads, and is left out.               *)
(***************************************************************************)

\* seconds the clock advances per step of the stream's clock
StreamStep == 5
\* steps of the clock per run
StreamTicks == 32
\* consecutive failures counted per run
MaxFailures == 7
\* time.time() when start_rtds_stream is launched
StreamStart == 1000

\* _rtds_watchdog's STALE_THRESHOLD and CHECK_INTERVAL
STALE_THRESHOLD == 30
CHECK_INTERVAL == 10

\* The stream not launched: the fields as __init__ leaves them.
StreamIdle ==
    rtds = [running |-> FALSE, pc |-> "idle", wake |-> 0,
            reconnect_backoff |-> 5, consecutive_failures |-> 0,
            last_success |-> 0, ws |-> "none", wd_next |-> 0,
            silent_since |-> 0, delays |-> <<>>, closes |-> 0, ticks |-> 0]

\* start_rtds_stream has set the running flag and launched the watchdog,
\* which sleeps CHECK_INTERVAL before its first look.
StreamInit ==
    /\ now = StreamStart
    /\ rtds = [running |-> TRUE, pc |-> "connect", wake |-> 0,
               reconnect_backoff |-> 5, consecutive_failures |-> 0,
               last_success |-> 0, ws |-> "none",
               wd_next |-> StreamStart + CHECK_INTERVAL,
               silent_since |-> 0, delays |-> <<>>, closes |-> 0,
               ticks |-> 0]

\* What the stream's actions leave alone.
notStream == <<orderVars, oracleVars, arbVars, riskVars, schedVars, mmVars,
               shut, window_filter, feed, entry, sweep>>

\* backoff = min(self._rtds_reconnect_backoff, 120.0)
Backoff(b) == Min(b, 120)

\* self._rtds_reconnect_backoff = min(self._rtds_reconnect_backoff * 2, 120.0)
NextBackoffFlat(b) == Min(b, 120)
NextBackoff(b) == Min(b * 2, 120)

\* The end of one pass of the while loop after the try block: the loop ends
\* if the flag is down, and sleeps the backoff otherwise.
StreamAfterTry(r) ==
    IF ~r.running
    THEN [r EXCEPT !.pc = "stopped"]
    ELSE [r EXCEPT !.pc = "sleep",
                   !.wake = now + Backoff(r.reconnect_backoff),
                   !.delays = Append(@, Backoff(r.reconnect_backoff))]

\* ws_connect and both subscriptions succeeded: the backoff and the failure
\* counter are reset and the stream loop starts.
StreamConnected ==
    /\ rtds.pc = "connect"
    /\ rtds' = [rtds EXCEPT !.pc = "stream", !.ws = "open",
                            !.reconnect_backoff = 5,
                            !.consecutive_failures = 0,
                            !.silent_since = now, !.delays = <<>>]
    /\ UNCHANGED <<now, notStream>>

\* ws_connect or a subscription raised (handshake error or any exception).
StreamConnectFailed ==
    /\ rtds.pc = "connect"
    /\ rtds.consecutive_failures < MaxFailures
    /\ rtds' = StreamAfterTry(
                  [rtds EXCEPT !.consecutive_failures = @ + 1])
    /\ UNCHANGED <<now, notStream>>

\* A Chainlink btc/usd message arrived on the open connection.
StreamChainlinkMessage ==
    /\ rtds.pc = "stream" /\ rtds.ws = "open" /\ rtds.running
    /\ rtds.last_success # now
    /\ rtds' = [rtds EXCEPT !.last_success = now, !.silent_since = now]
    /\ UNCHANGED <<now, notStream>>

\* The message loop ended: the server closed the connection, or the
\* watchdog or close() closed it.
StreamDisconnected ==
    /\ rtds.pc = "stream"
    /\ rtds' = StreamAfterTry([rtds EXCEPT !.ws = "closed"])
    /\ UNCHANGED <<now, notStream>>

\* The message loop raised.
StreamError ==
    /\ rtds.pc = "stream" /\ rtds.ws = "open"
    /\ rtds.consecutive_failures < MaxFailures
    /\ rtds' = StreamAfterTry(
                  [rtds EXCEPT !.ws = "closed",
                               !.consecutive_failures = @ + 1])
    /\ UNCHANGED <<now, notStream>>

\* The backoff sleep is over: the backoff doubles and the while condition
\* is read.
StreamWake ==
    /\ rtds.pc = "sleep" /\ rtds.wake <= now
    /\ rtds' = [rtds EXCEPT
                  !.reconnect_backoff = NextBackoff(@),
                  !.pc = IF rtds.running THEN "connect" ELSE "stopped"]
    /\ UNCHANGED <<now, notStream>>

\* One pass of the watchdog's loop after its sleep.
RtdsWatchdog ==
    /\ rtds.running /\ rtds.wd_next <= now
    /\ LET last == rtds.last_success
           r == [rtds EXCEPT !.wd_next = now + CHECK_INTERVAL]
       IN rtds' = IF last <= 0 THEN r
                  ELSE IF now - last > STALE_THRESHOLD
                  THEN [r EXCEPT !.ws = IF @ = "open" THEN "closed" ELSE @,
                                 !.closes = IF rtds.ws = "open"
                                            THEN Min(@ + 1, 2) ELSE @,
                                 !.last_success = 0]
                  ELSE r
    /\ UNCHANGED <<now, notStream>>

\* OracleEngine.close: the flag goes down and the connection is closed.
StreamClose ==
    /\ rtds.running
    /\ rtds' = [rtds EXCEPT !.running = FALSE,
                            !.ws = IF @ = "open" THEN "closed" ELSE @]
    /\ UNCHANGED <<now, notStream>>

\* The clock advances once every task that is due has run.
StreamTick ==
    /\ rtds.ticks < StreamTicks
    /\ rtds.pc \in {"stream", "sleep"}
    /\ ~(rtds.pc = "stream" /\ rtds.ws = "closed")
    /\ ~(rtds.pc = "sleep" /\ rtds.wake <= now)
    /\ ~(rtds.running /\ rtds.wd_next <= now)
    /\ now' = now + StreamStep
    /\ rtds' = [rtds EXCEPT !.ticks = @ + 1]
    /\ UNCHANGED notStream

StreamNext ==
    \/ StreamConnected
    \/ StreamConnectFailed
    \/ StreamChainlinkMessage
    \/ StreamDisconnected
    \/ StreamError
    \/ StreamWake
    \/ RtdsWatchdog
    \/ StreamClose
    \/ StreamTick

-----------------------------------------------------------------------------
(***************************************************************************)
(* Shutdown (bot.py: run, _5m_loop, stop, shutdown, main;                  *)
(* core/arb_scanner.py: run, stop; core/market_maker.py: run, stop).       *)
(* Each loop is a task of the one event loop.  A loop reads its own flag   *)
(* only in its while condition: the main and 5m loops read                 *)
(* BTCPredictionBot.running, the arb scanner ArbScanner._running and the   *)
(* market maker MarketMaker._running.                                      *)
(***************************************************************************)

ShutLoops == {"main", "fivem", "arb", "mm"}

\* No loop launched.
ShutIdle ==
    shut = [running |-> FALSE, arb_running |-> FALSE, mm_running |-> FALSE,
            main |-> "idle", pc |-> [l \in ShutLoops |-> "idle"],
            late |-> {}, cut |-> {}]

\* run() has created the tasks and set the flag; every loop is about to
\* read its while condition.
ShutInit ==
    shut = [running |-> TRUE, arb_running |-> TRUE, mm_running |-> TRUE,
            main |-> "run", pc |-> [l \in ShutLoops |-> "top"],
            late |-> {}, cut |-> {}]

\* What the shutdown's actions leave alone.
notShut == <<now, orderVars, oracleVars, arbVars, riskVars, schedVars,
             mmVars, rtds, window_filter, feed, entry, sweep>>

\* The flag a loop's while condition reads.
LoopFlag(l) ==
    CASE l \in {"main", "fivem"} -> shut.running
      [] l = "arb" -> shut.arb_running
      [] l = "mm" -> shut.mm_running

\* SIGINT: handle_signal calls bot.stop(), which lowers the bot's flag only.
HandleSignal ==
    /\ shut.main = "run" /\ shut.running
    /\ shut' = [shut EXCEPT !.running = FALSE]
    /\ UNCHANGED notShut

\* A loop reads its while condition: it starts a cycle or ends.
LoopTop(l) ==
    /\ shut.pc[l] = "top"
    /\ shut' = [shut EXCEPT !.pc[l] = IF LoopFlag(l) THEN "cycle"
                                       ELSE "ended"]
    /\ UNCHANGED notShut

\* Inside a cycle the loop starts an order submission (place_order,
\* _execute_arb, place_maker_order); no flag is read on the way.
LoopSubmit(l) ==
    /\ shut.pc[l] = "cycle"
    /\ shut' = [shut EXCEPT !.pc[l] = "submit",
                            !.late = IF shut.running THEN @ ELSE @ \cup {l}]
    /\ UNCHANGED notShut

\* The submission returned; the cycle goes on (further markets, further
\* opportunities, the other side of a quote).
LoopSubmitted(l) ==
    /\ shut.pc[l] = "submit"
    /\ shut' = [shut EXCEPT !.pc[l] = "cycle"]
    /\ UNCHANGED notShut

\* The cycle is over and the loop's sleep has passed.
LoopSleep(l) ==
    /\ shut.pc[l] = "cycle"
    /\ shut' = [shut EXCEPT !.pc[l] = "top"]
    /\ UNCHANGED notShut

\* bot.run() returned and main's finally clause calls shutdown(): stop(),
\* arb_scanner.stop() and market_maker.stop() run without an await.
Shutdown ==
    /\ shut.main = "run" /\ shut.pc["main"] = "ended"
    /\ shut' = [shut EXCEPT !.main = "shutdown", !.running = FALSE,
                            !.arb_running = FALSE, !.mm_running = FALSE]
    /\ UNCHANGED notShut

\* shutdown() closed the sessions and returned without awaiting a task;
\* main returns and asyncio.run cancels every task still pending.
MainReturns ==
    /\ shut.main = "shutdown"
    /\ shut' = [shut EXCEPT
                  !.main = "exited",
                  !.pc = [l \in ShutLoops |->
                            IF shut.pc[l] = "ended" THEN "ended"
                            ELSE "cancelled"],
                  !.cut = {l \in ShutLoops : shut.pc[l] = "submit"}]
    /\ UNCHANGED notShut

ShutNext ==
    \/ HandleSignal
    \/ \E l \in ShutLoops : LoopTop(l)
    \/ \E l \in ShutLoops : LoopSubmit(l)
    \/ \E l \in ShutLoops : LoopSubmitted(l)
    \/ \E l \in ShutLoops : LoopSleep(l)
    \/ Shutdown
    \/ MainReturns

-----------------------------------------------------------------------------
(***************************************************************************)
(* PolymarketClient.filter_current_window                                  *)
(* (core/polymarket_client.py).  A market is its window timestamp, the     *)
(* number get_market_window_ts reads off its slug, or NoTs when the slug   *)
(* carries none.                                                           *)
(***************************************************************************)

\* markets per list passed to filter_current_window
MaxMarkets == 2
\* calls of filter_current_window per run
MaxFilterCalls == 2
\* the start of a 15-minute window, which is the start of a 5-minute one
FilterEpoch == 900000
\* get_market_window_ts returned None
NoTs == 0

\* seconds into the 15-minute window at which the function is called
FilterOffsets == {0, 209, 210, 299, 300, 809, 810, 899}

\* No call made.
FilterIdle ==
    window_filter = [calls |-> 0, now |-> 0, interval_minutes |-> 0,
                     markets |-> <<>>, result |-> <<>>]

\* What a call of filter_current_window leaves alone.
notFilter == <<now, orderVars, oracleVars, arbVars, riskVars, schedVars,
               mmVars, rtds, shut, feed, entry, sweep>>

\* current_boundary = (now // interval_secs) * interval_secs
CurrentBoundary(t, interval_minutes) ==
    (t \div (interval_minutes * 60)) * (interval_minutes * 60)

\* filter_current_window(markets, interval_minutes) called at time t.
FilterCurrentWindow(markets, interval_minutes, t) ==
    LET interval_secs == interval_minutes * 60
        current_boundary == CurrentBoundary(t, interval_minutes)
        next_boundary == current_boundary + interval_secs
        IsNext(ts) == ts = NoTs \/ ts = next_boundary
        IsCurrent(ts) == ts # NoTs /\ ts # next_boundary
                         /\ ts = current_boundary
        next_window == SelectSeq(markets, IsNext)
        current_window == SelectSeq(markets, IsCurrent)
        elapsed == t - current_boundary
        close_to_boundary == elapsed >= interval_secs - 90
    IN IF next_window # <<>> /\ close_to_boundary THEN next_window
       ELSE IF current_window # <<>> /\ ~close_to_boundary
       THEN current_window
       ELSE IF next_window # <<>> THEN next_window
       ELSE IF current_window # <<>> THEN current_window
       ELSE markets

\* The lists of at most n timestamps drawn from a set.
MarketLists(S, n) == UNION {[1..k -> S] : k \in 0..n}

\* One call: the bot passes the discovered markets of its interval, whose
\* windows lie around the present one, at some moment of the window.
FilterCall ==
    /\ window_filter.calls < MaxFilterCalls
    /\ \E interval_minutes \in {5, 15}, off \in FilterOffsets :
         LET t == FilterEpoch + off
             cb == CurrentBoundary(t, interval_minutes)
             secs == interval_minutes * 60
         IN \E markets \in MarketLists(
                  {NoTs, cb - secs, cb, cb + secs, cb + 2 * secs},
                  MaxMarkets) :
              window_filter' =
                  [calls |-> window_filter.calls + 1, now |-> t,
                   interval_minutes |-> interval_minutes,
                   markets |-> markets,
                   result |-> FilterCurrentWindow(markets,
                                                  interval_minutes, t)]
    /\ UNCHANGED notFilter

FilterNext == FilterCall

-----------------------------------------------------------------------------
(***************************************************************************)
(* OracleEngine.get_price and the fetchers it gathers                      *)
(* (oracles/price_feed.py).  A PricePoint is its timestamp, 0 where the    *)
(* code holds None; the two stream buffers are written by the RTDS stream, *)
(* the two REST sources answer at the moment of the call or fail.          *)
(***************************************************************************)

\* seconds per step of the clock, steps and get_price calls per run
FeedStep == 15
FeedTicks == 6
MaxFeedCalls == 2
\* time.time() at the start of a run
FeedStart == 1000

\* OracleConfig.max_price_age and min_oracle_consensus, and the age up to
\* which get_price and the stream fetchers accept a cached point
MaxPriceAge == 30
MinOracleConsensus == 2
CacheTolerance == 60

Sources == {"chainlink", "rtds_binance", "binance", "coingecko"}

\* PricePoint.is_stale(max_age) of a point with timestamp ts at time t
IsStale(ts, t, max_age) == t - ts > max_age

\* __init__: no buffer, no cached price, no call made.
FeedIdle ==
    feed = [buffer |-> [s \in {"chainlink", "rtds_binance"} |-> 0],
            last_prices |-> [s \in Sources |-> 0],
            calls |-> 0, ticks |-> 0,
            result |-> [raised |-> FALSE, at |-> 0, sources |-> {},
                        price_from |-> "none"]]

\* What the price feed's actions leave alone.
notFeed == <<orderVars, oracleVars, arbVars, riskVars, schedVars, mmVars,
             rtds, shut, window_filter, entry, sweep>>

\* _fetch_chainlink_rtds and _fetch_rtds_binance: the buffer's point when it
\* is at most max_price_age old, or else at most 60s old; None otherwise.
FetchBuffer(ts, t) ==
    IF ts # 0 /\ ~IsStale(ts, t, MaxPriceAge) THEN ts
    ELSE IF ts # 0 /\ ~IsStale(ts, t, CacheTolerance) THEN ts
    ELSE 0

\* get_price at time t: fetched[s] is what the fetcher of source s returned.
\* The result holds the cache as the call leaves it and the sources of the
\* consensus, none when the call raises.
GetPrice(last_prices, fetched, t) ==
    LET fresh == {s \in Sources :
                     fetched[s] # 0 /\ ~IsStale(fetched[s], t, MaxPriceAge)}
        last == [s \in Sources |->
                    IF s \in fresh THEN fetched[s] ELSE last_prices[s]]
        cached == IF Cardinality(fresh) < MinOracleConsensus
                  THEN {s \in Sources \ fresh :
                           last[s] # 0 /\ ~IsStale(last[s], t, CacheTolerance)}
                  ELSE {}
        valid == fresh \cup cached
    IN  [last_prices |-> last,
         raised |-> valid = {},
         sources |-> valid,
         price_from |-> IF valid = {} THEN "none"
                        ELSE IF "chainlink" \in fresh THEN "chainlink"
                        ELSE IF "rtds_binance" \in valid THEN "rtds_binance"
                        ELSE "median"]

\* The RTDS stream delivers a message of one topic: the buffer is replaced.
FeedMessage ==
    /\ \E s \in {"chainlink", "rtds_binance"} :
         /\ feed.buffer[s] # now
         /\ feed' = [feed EXCEPT !.buffer[s] = now]
    /\ UNCHANGED <<now, notFeed>>

\* A caller awaits get_price(); each REST source answers or fails.
FeedGetPrice ==
    /\ feed.calls < MaxFeedCalls
    /\ \E rest \in [{"binance", "coingecko"} -> BOOLEAN] :
         LET fetched == [s \in Sources |->
                            IF s \in {"chainlink", "rtds_binance"}
                            THEN FetchBuffer(feed.buffer[s], now)
                            ELSE IF rest[s] THEN now ELSE 0]
             r == GetPrice(feed.last_prices, fetched, now)
         IN  feed' = [feed EXCEPT
                        !.calls = @ + 1,
                        !.last_prices = r.last_prices,
                        !.result = [raised |-> r.raised, at |-> now,
                                    sources |-> r.sources,
                                    price_from |-> r.price_from]]
    /\ UNCHANGED <<now, notFeed>>

\* Time passes.
FeedTick ==
    /\ feed.ticks < FeedTicks
    /\ now' = now + FeedStep
    /\ feed' = [feed EXCEPT !.ticks = @ + 1]
    /\ UNCHANGED notFeed

FeedNext == FeedMessage \/ FeedGetPrice \/ FeedTick

-----------------------------------------------------------------------------
(***************************************************************************)
(* BTCPredictionBot._is_in_entry_window called at any second of an hour,   *)
(* with the main loop's interval at 5 or 15 minutes (bot.py).              *)
(***************************************************************************)

\* the top of the hour the calls are made in
EntryHour == 7200

\* No call made.
EntryIdle == entry = [calls |-> 0, now |-> 0, interval |-> 0, result |-> FALSE]

\* What a call of _is_in_entry_window leaves alone.
notEntry == <<now, orderVars, oracleVars, arbVars, riskVars, schedVars,
              mmVars, rtds, shut, window_filter, feed, sweep>>

\* The main loop calls _is_in_entry_window at some second of the hour; one
\* call per run.
EntryCall ==
    /\ entry.calls = 0
    /\ \E t \in EntryHour..(EntryHour + 3599), W \in {5, 15} :
         entry' = [calls |-> entry.calls + 1, now |-> t, interval |-> W,
                   result |-> IsInEntryWindow(t, W)]
    /\ UNCHANGED notEntry

EntryNext == EntryCall

-----------------------------------------------------------------------------
(***************************************************************************)
(* The main engine's risk gate over a day of 15-minute cycles (bot.py,     *)
(* _trading_cycle step 5; core/risk_manager.py, can_trade): every cycle    *)
(* has a decision to trade and asks can_trade at its boundary; resolved    *)
(* trades are recorded between the cycles.                                 *)
(***************************************************************************)

\* The cycles of a run, from 18:00 UTC past midnight, the seconds between
\* two boundaries, and the trades resolved in a run
MaxCdCycles == 28
CdStep == 900
MaxCdRecords == 2

\* What the gate's cycles leave alone.
notCooldown == <<order_type, po, trade_records, oracleVars, arbVars,
                 schedVars, fivem_trade_ids, archived_trades, venue, task,
                 pnl_log, placed, decision, lw, mmVars, auxVars>>

\* The checks of can_trade other than the cooldown and the loss streak:
\* daily trade limit, daily loss limit, capital.
OtherChecksPass(rm) ==
    /\ rm.daily.trades < Limits.max_daily_trades
    /\ ~(/\ rm.capital > 0 /\ Reference(rm) > 0
         /\ (-Min(0, rm.daily.total_pnl)) * 100
               >= Limits.max_daily_loss_pct * Reference(rm))
    /\ rm.capital > 0

\* One 15m cycle at its boundary: can_trade is asked, the cycle trades or
\* is blocked, and the loop sleeps until the next boundary.
CooldownCycle ==
    LET g == CanTrade(risk_manager, now)
    IN  /\ now < RiskStart + CdStep * MaxCdCycles
        /\ risk_manager' = g.rm
        /\ api' = [Called("can_trade", 0, 0, 0, IF g.ok THEN 1 ELSE 0)
                   EXCEPT !.calls = api.calls]
        /\ now' = now + CdStep
        /\ UNCHANGED notCooldown

\* A resolved trade of the main engine is routed to record_trade.
CooldownRecord ==
    /\ api.calls < MaxCdRecords
    /\ \E pnl \in {-10000, 2500} :
          /\ risk_manager' = RecordTrade(risk_manager, pnl, now)
          /\ api' = Called("record_trade", 0, pnl, 0, 0)
    /\ UNCHANGED <<now, notCooldown>>

CooldownNext == CooldownCycle \/ CooldownRecord

-----------------------------------------------------------------------------
(***************************************************************************)
(* The main loop with late-window trading enabled (bot.py: run,            *)
(* _trading_cycle phase 1, _late_window_check): which anchor a late-window *)
(* decision is computed from.  An anchor price is told apart by the window *)
(* it was captured for.                                                    *)
(***************************************************************************)

\* The seconds between two iterations of the loop that the model follows (a
\* multiple of sleep_poll_secs), the iterations of a run, and time.time()
\* when a run starts: 43:00 of an hour, one minute before an entry window
SweepStep == 15
SweepTicks == 68
SweepStart == 7200 + 2580

\* LateWindowConfig.lead_secs
LateLeadSecs == 150

\* self._last_anchor_price = None
NoLastAnchor == [boundary_time |-> -1, W |-> 0]

\* __init__: no anchor saved, no window traded, nothing swept.
SweepIdle ==
    sweep = [last_anchor |-> NoLastAnchor, traded_this_window |-> FALSE,
             traded_markets |-> {}, decisions |-> {}, ticks |-> 0]

\* What the loop's iterations leave alone.
notSweep == <<orderVars, oracleVars, arbVars, riskVars, schedVars, mmVars,
              rtds, shut, window_filter, feed, entry>>

\* The markets discover_markets can return at time t: the 5m, 15m and 1h
\* markets that close at the next boundary of their interval.
SweepMarkets(t) ==
    {[interval |-> W, end_ts |-> NextBoundary(t, W)] : W \in {5, 15, 60}}

\* The markets of a sweep at time t that get a late-window decision: 30s to
\* lead_secs before their end, not a 5m market, an anchor saved, not traded
\* by a sweep since the last trading cycle.
SweepEligible(found, s, t) ==
    {m \in found :
        /\ m.end_ts - t > 30 /\ m.end_ts - t <= LateLeadSecs
        /\ m.interval # 5
        /\ s.last_anchor # NoLastAnchor
        /\ m \notin s.traded_markets}

\* One iteration of run()'s loop with the directional interval at 15
\* minutes.  In the entry window of a window not traded yet the trading
\* cycle runs: capture_window_open returns the anchor of the window now is
\* in, or get_price raises and the cycle ends; the dedup set is reset.
\* Outside the entry window, after a trading cycle, the sweep decides on
\* every eligible market with the saved anchor and trades some of them; the
\* flag is reset within entry_lead_secs of the next entry.
SweepTick ==
    /\ sweep.ticks < SweepTicks
    /\ IF IsInEntryWindow(now, 15)
       THEN IF ~sweep.traded_this_window
            THEN \E captured \in BOOLEAN :
                    sweep' = [sweep EXCEPT
                       !.last_anchor =
                          IF captured
                          THEN [boundary_time |-> CurrentWindowBoundary(15, now),
                                W |-> 15]
                          ELSE @,
                       !.traded_this_window = TRUE,
                       !.traded_markets = {},
                       !.ticks = @ + 1]
            ELSE sweep' = [sweep EXCEPT !.ticks = @ + 1]
       ELSE \E found \in SUBSET SweepMarkets(now) :
               LET eligible == IF sweep.traded_this_window
                               THEN SweepEligible(found, sweep, now) ELSE {}
                   secs == SecondsUntilEntry(now, 15)
               IN  \E traded \in SUBSET eligible :
                      sweep' = [sweep EXCEPT
                         !.decisions = @ \cup
                            {[market |-> m, at |-> now,
                              anchor |-> sweep.last_anchor] : m \in eligible},
                         !.traded_markets = @ \cup traded,
                         !.traded_this_window =
                            IF secs > 0 /\ secs < Timing.entry_lead_secs
                            THEN FALSE ELSE @,
                         !.ticks = @ + 1]
    /\ now' = now + SweepStep
    /\ UNCHANGED notSweep

SweepNext == SweepTick

\* The stream, the shutdown, the window filter, the price feed, the
\* entry-window test and the late-window loop at rest.
AuxIdle ==
    StreamIdle /\ ShutIdle /\ FilterIdle /\ FeedIdle /\ EntryIdle /\ SweepIdle

-----------------------------------------------------------------------------
(***************************************************************************)
(* The specifications.                                                     *)
(***************************************************************************)
InitOrder ==
    OrderInit /\ now = 0 /\ OracleIdle /\ ArbIdle /\ RiskIdle /\ SchedIdle
    /\ MMIdle /\ AuxIdle
SpecOrder == InitOrder /\ [][OrderNext]_vars

InitOracle ==
    OracleInit /\ OrderIdle /\ ArbIdle /\ RiskIdle /\ SchedIdle /\ MMIdle
    /\ AuxIdle
SpecOracle == InitOracle /\ [][OracleNext]_vars

InitArb ==
    ArbInit /\ OrderIdle /\ OracleIdle /\ RiskIdle /\ SchedIdle /\ MMIdle
    /\ AuxIdle
SpecArb == InitArb /\ [][ArbNext]_vars

InitRisk ==
    RiskIdle /\ now = RiskStart /\ OrderIdle /\ OracleIdle /\ ArbIdle /\ SchedIdle
    /\ MMIdle /\ AuxIdle
SpecRisk == InitRisk /\ [][RiskNext]_vars

SpecRiskApi == InitRisk /\ [][RiskApiNext]_vars

SpecLate == InitRisk /\ [][LateNext]_vars

SpecSignal == InitRisk /\ [][SignalNext]_vars

\* A market maker in its loop: just started, or near the end of its first
\* day after 499 quotes posted and cancelled without a fill.
InitMM ==
    /\ mm_config \in MMConfigs
    /\ \E aged \in BOOLEAN :
         mm = [running |-> TRUE, pc |-> "ready", active_quotes |-> <<>>,
               daily_fills_usd |-> 0, yes_fills_usd |-> 0, no_fills_usd |-> 0,
               cancelled_order_ids |-> {},
               cancelled_old |-> IF aged THEN 499 ELSE 0,
               day_start |-> IF aged THEN MMStart - 86400 + 10 ELSE MMStart,
               cycle_count |-> 0,
               known_markets |-> {},
               post |-> [condition_id |-> 0, mid_price |-> 0,
                         skip_side |-> "none"]]
    /\ mm_venue = [open |-> {}, next_id |-> 1]
    /\ mm_log = [submitted |-> {}, lookup_failed |-> {}, pulled |-> {}]
    /\ now = MMStart
    /\ OrderIdle /\ OracleIdle /\ ArbIdle /\ RiskIdle /\ SchedIdle /\ AuxIdle
SpecMM == InitMM /\ [][MMNext]_vars

InitSched ==
    SchedInit /\ OrderIdle /\ OracleIdle /\ ArbIdle /\ RiskIdle /\ MMIdle
    /\ AuxIdle
SpecSched == InitSched /\ [][SchedNext]_vars

InitStream ==
    StreamInit /\ ShutIdle /\ FilterIdle /\ FeedIdle /\ EntryIdle /\ OrderIdle /\ OracleIdle /\ ArbIdle
    /\ RiskIdle /\ SchedIdle /\ MMIdle /\ SweepIdle
SpecStream == InitStream /\ [][StreamNext]_vars

InitShut ==
    ShutInit /\ now = 0 /\ StreamIdle /\ FilterIdle /\ FeedIdle /\ EntryIdle /\ OrderIdle /\ OracleIdle
    /\ ArbIdle /\ RiskIdle /\ SchedIdle /\ MMIdle /\ SweepIdle
SpecShut == InitShut /\ [][ShutNext]_vars

InitFilter ==
    FilterIdle /\ now = 0 /\ StreamIdle /\ ShutIdle /\ FeedIdle /\ EntryIdle /\ OrderIdle /\ OracleIdle
    /\ ArbIdle /\ RiskIdle /\ SchedIdle /\ MMIdle /\ SweepIdle
SpecFilter == InitFilter /\ [][FilterNext]_vars

InitSweep ==
    SweepIdle /\ now = SweepStart /\ StreamIdle /\ ShutIdle /\ FilterIdle
    /\ FeedIdle /\ EntryIdle /\ OrderIdle /\ OracleIdle /\ ArbIdle /\ RiskIdle
    /\ SchedIdle /\ MMIdle
SpecSweep == InitSweep /\ [][SweepNext]_vars

\* The main loop runs a cycle at every boundary for as long as it runs.
SpecCooldown ==
    InitRisk /\ [][CooldownNext]_vars /\ WF_vars(CooldownCycle)

\* A 15m cycle of the main loop begins: _cycle_count grows (kept modulo 2),
\* the strategy decides HOLD and the cycle returns, or it decides to trade
\* and can_trade blocks the cycle or lets it on to discover_markets.  Once
\* MaxTrades trades are placed every decision is HOLD.
MainCycleBegin ==
    /\ task["main"].pc = "idle"
    /\ \E confidence \in Confidences,
          hold \in IF Len(trade_records) + Len(archived_trades) < MaxTrades
                   THEN BOOLEAN ELSE {TRUE} :
          LET g == CanTrade(risk_manager, now)
          IN  /\ risk_manager' = IF hold THEN risk_manager ELSE g.rm
              /\ task' = [task EXCEPT !["main"] =
                    IF hold \/ ~g.ok THEN IdleTask
                    ELSE [IdleTask EXCEPT !.pc = "discover", !.engine = "main",
                                          !.confidence = confidence]]
    /\ lw' = [lw EXCEPT !.cycles = (@ + 1) % 2]
    /\ UNCHANGED <<orderVars, now, oracleVars, arbVars, schedVars, mmVars,
                   auxVars, fivem_trade_ids, archived_trades, venue, pnl_log,
                   placed, api, decision>>

\* The steps of the main loop's 15m cycle.
MainCycleStep ==
    \/ MainCycleBegin
    \/ Order("main")
    \/ Placed("main")
    \/ ResBegin("main")
    \/ ResLookup("main")
    \/ Route("main")

\* get_market names the winner of the record the main loop's pass is at.
MainLookupResolves ==
    /\ ResLookup("main")
    /\ <<trade_records, archived_trades>>' # <<trade_records, archived_trades>>

\* The bot with the 5m loop disabled: the main loop alone trades and
\* resolves.  The loop keeps running, and a lookup of a closed market that
\* is repeated again and again eventually answers.
MainOnlyNext == MainCycleStep \/ MarketResolves \/ RiskTick
SpecMainOnly ==
    InitRisk /\ [][MainOnlyNext]_vars
    /\ WF_vars(MainCycleStep) /\ SF_vars(MainLookupResolves)

InitFeed ==
    FeedIdle /\ now = FeedStart /\ StreamIdle /\ ShutIdle /\ FilterIdle
    /\ EntryIdle /\ OrderIdle /\ OracleIdle /\ ArbIdle /\ RiskIdle /\ SchedIdle
    /\ MMIdle /\ SweepIdle
SpecFeed == InitFeed /\ [][FeedNext]_vars

InitEntry ==
    EntryIdle /\ now = 0 /\ StreamIdle /\ ShutIdle /\ FilterIdle /\ FeedIdle
    /\ OrderIdle /\ OracleIdle /\ ArbIdle /\ RiskIdle /\ SchedIdle /\ MMIdle /\ SweepIdle
SpecEntry == InitEntry /\ [][EntryNext]_vars

-----------------------------------------------------------------------------
(***************************************************************************)
(* C1: place_order appends and returns a TradeRecord only if a get_order   *)
(* lookup for that order answered matched or filled; every path on which   *)
(* no lookup confirms the fill returns no trade and appends no record.     *)
(***************************************************************************)
C1_RecordOnlyIfConfirmed ==
    /\ \A i \in 1..Len(trade_records) : trade_records[i].confirmed
    /\ po.ret = "trade" => po.confirmed

(***************************************************************************)
(* C3: once capture_window_open has returned an anchor for window length W *)
(* at boundary B, every later call with the same W while the boundary is   *)
(* still B returns the identical (boundary_time, open_price, source,       *)
(* captured_at): one anchor per (window, interval), immutable.             *)
(***************************************************************************)
C3_AnchorImmutable ==
    \A a, b \in anchor_log :
        (a.W = b.W /\ a.boundary = b.boundary) => a.anchor = b.anchor

(***************************************************************************)
(* C9: every arbitrage the scanner executes (an execution it has recorded, *)
(* or one whose orders are being placed) is on a market whose gross edge   *)
(* minus the YES-side fee % minus the NO-side fee %, at the prices held    *)
(* when it was decided, is strictly greater than 0.                        *)
(***************************************************************************)
C9_ExecutedArbNetPositive ==
    /\ \A i \in 1..Len(executions) :
          (100 - (executions[i].price_yes + executions[i].price_no)) * 10000
            - EstimateTakerFeePct(executions[i].price_yes)
            - EstimateTakerFeePct(executions[i].price_no) > 0
    /\ scan.pc = "orders" => NetEdgePct(known_markets[scan.cid]) > 0

\* An arbitrage has been executed with both sides filled.
C9_Witness ==
    \E i \in 1..Len(executions) : executions[i].status = "filled"

(***************************************************************************)
(* C2: over every interleaving of the main cycle's resolution step and the *)
(* 5m loop's, the PnL of every trade that resolves is applied to the       *)
(* RiskManager exactly once: never twice, and once no resolution step is   *)
(* under way, not zero times.                                              *)
(***************************************************************************)
C2_PnlAppliedOnce ==
    LET applied(id) == Cardinality({k \in DOMAIN pnl_log : pnl_log[k].trade_id = id})
        all == archived_trades \o trade_records
    IN  \A k \in DOMAIN all :
           /\ applied(all[k].trade_id) <= 1
           /\ (all[k].outcome # "pending"
                 /\ \A t \in DOMAIN task : task[t].pc \notin {"lookup", "route"})
              => applied(all[k].trade_id) >= 1

(***************************************************************************)
(* C7: in every reachable state the late-window engine's and the 5m        *)
(* engine's daily spent amounts are at most start_of_day_capital times     *)
(* their budget_pct / 100, also right after a placement is recorded.       *)
(***************************************************************************)
C7_SpentWithinBudget ==
    LET d == risk_manager.daily
    IN  /\ d.late_window_spent * 100
             <= d.start_of_day_capital * Limits.late_window_budget_pct
        /\ d.spent_5m * 100 <= d.start_of_day_capital * Limits.fivem_budget_pct

(***************************************************************************)
(* C8: in every reachable state each engine's daily trade count is at most *)
(* its daily cap, and the orders an engine has placed in the UTC day are   *)
(* at most that cap.                                                       *)
(***************************************************************************)
C8_DailyCaps ==
    /\ risk_manager.daily.trades <= Limits.max_daily_trades
    /\ risk_manager.daily.late_window_trades <= Limits.late_window_max_daily_trades
    /\ risk_manager.daily.trades_5m <= Limits.fivem_max_daily_trades
    /\ placed["main"] <= Limits.max_daily_trades
    /\ placed["late"] <= Limits.late_window_max_daily_trades
    /\ placed["fivem"] <= Limits.fivem_max_daily_trades

(***************************************************************************)
(* C10: the PnL of a resolved trade is applied to the RiskManager bucket   *)
(* of the engine that placed the trade, never to another engine's.         *)
(***************************************************************************)
C10_PnlToPlacingEngine ==
    \A k \in DOMAIN pnl_log :
       pnl_log[k].bucket =
          Lookup(trade_records, archived_trades, pnl_log[k].trade_id).engine


C5_FivemOncePerWindow ==
    \A b \in Boundaries :
        /\ cycle_log["fivem"][b].cycles
             + (IF loops["fivem"].pc = "cycle" /\ loops["fivem"].boundary = b
                THEN 1 ELSE 0) <= 1
        /\ cycle_log["fivem"][b].orders <= 1

\* The 5m loop is awake inside the entry window of a boundary for which its
\* cycle has already run.
C5_Witness ==
    /\ IsIn5mEntryWindow(now)
    /\ loops["fivem"].pc = "sleep"
    /\ loops["fivem"].wake = now
    /\ cycle_log["fivem"][NextBoundary(now, 5)].cycles = 1

(***************************************************************************)
(* C6: for a 5-minute boundary that is also a 15-minute boundary the 5m    *)
(* loop never runs its trading cycle and places no order.                  *)
(***************************************************************************)
C6_FivemSkips15mBoundary ==
    \A b \in Boundaries :
        b % 900 = 0 =>
            /\ cycle_log["fivem"][b].cycles = 0
            /\ cycle_log["fivem"][b].orders = 0
            /\ ~(loops["fivem"].pc = "cycle" /\ loops["fivem"].boundary = b)

\* The 5m loop has met the entry window of a 15-minute boundary with its
\* flag clear, and has skipped it.
C6_Witness ==
    \E b \in Boundaries : b % 900 = 0 /\ cycle_log["fivem"][b].skips >= 1

(***************************************************************************)
(* C11: after any sequence of record_trade, record_5m_trade and            *)
(* record_late_window_trade calls within one UTC day, the per-engine daily *)
(* PnLs (main total_pnl, pnl_5m, late_window_pnl) add up to the PnL the    *)
(* RiskManager has accumulated in its lifetime _total_pnl during that day. *)
(***************************************************************************)
C11_EnginePnlsSumToDayTotal ==
    risk_manager.daily.total_pnl + risk_manager.daily.pnl_5m
        + risk_manager.daily.late_window_pnl
      = risk_manager.total_pnl - api.day_base

C20_SizeWithinAllBounds ==
    (api.op = "main" /\ api.before.capital > 0) =>
        /\ api.result >= Limits.min_trade_size_usd
        /\ api.result <= Limits.max_trade_size_usd
        /\ 100 * api.result <= api.before.capital * Limits.max_trade_pct
        /\ api.result <= api.before.capital

(***************************************************************************)
(* C20, amended: for every capital > 0 and every confidence in [0,1],      *)
(* calculate_position_size returns, to the cent, the fractional Kelly size *)
(* capped by capital * max_trade_pct/100 and by max_trade, then raised to  *)
(* min_trade, then capped by capital.  The result is at most max_trade and *)
(* at most capital; it is at least min_trade when capital >= min_trade;    *)
(* it is at most capital * max_trade_pct/100 (to the cent) when that cap   *)
(* is at least min_trade.  For capital 500 and confidence 0.85 it is 25.   *)
(***************************************************************************)
C20_SizeClampOrder ==
    (api.op = "main" /\ api.before.capital > 0) =>
        LET capital == api.before.capital
            pct_cap == capital * Limits.max_trade_pct
        IN  /\ api.result <= Limits.max_trade_size_usd
            /\ api.result <= capital + 50
            /\ capital >= Limits.min_trade_size_usd
                 => api.result >= Limits.min_trade_size_usd
            /\ pct_cap >= 100 * Limits.min_trade_size_usd
                 => 100 * api.result <= pct_cap + 5000
            /\ (api.confidence <= 50 /\ capital >= Limits.min_trade_size_usd)
                 => api.result = Limits.min_trade_size_usd
            /\ (capital = 5000000 /\ api.confidence = 85)
                 => api.result = 250000

\* A bankroll of 10 USD: the 5 % cap is 0.50 USD and the size is the 1 USD
\* minimum.
C20_Witness ==
    /\ api.op = "main" /\ api.before.capital = 100000
    /\ api.result = Limits.min_trade_size_usd

(***************************************************************************)
(* C12: between two consecutive runs of the 15m trading cycle the          *)
(* late-window sweep places at most one late-window trade per market       *)
(* condition ID, however many sweep ticks there are.                       *)
(***************************************************************************)
C12_OneLateTradePerMarket ==
    \A m \in {1, 2} : lw.trades[m] <= 1

\* A later sweep met a market it had already traded in this cycle.
C12_Witness ==
    /\ lw.deduped /\ lw.sweeps >= 2
    /\ \E m \in {1, 2} : lw.trades[m] = 1 /\ m \in lw.traded_markets

(***************************************************************************)
(* C13: every order the market maker passes to place_maker_order has a     *)
(* price within [0.25, 0.75] and a size of at least 5 shares, whatever the *)
(* mid price, the spread, the number of levels and their spacing.          *)
(***************************************************************************)
C13_MakerOrdersInRange ==
    \A o \in mm_log.submitted :
        o.price >= 25 /\ o.price <= 75 /\ o.size >= 50

\* With the wide two-level quoting at a mid of 0.36 the YES bids (0.22 and
\* 0.21) are dropped and the NO bids go out at the 5-share minimum.
C13_Witness ==
    /\ mm_config.num_levels = 2 /\ mm.post.mid_price = 3600
    /\ mm.pc = "sleep"
    /\ \E o \in mm_log.submitted : o.price = 50 /\ o.size = 50

(***************************************************************************)
(* C16: in every reachable state of the market maker the realised fill USD *)
(* of the current day (_daily_fills_usd) is at most max_daily_budget.      *)
(***************************************************************************)
C16_FillsWithinBudget ==
    mm.daily_fills_usd <= mm_config.max_daily_budget

(***************************************************************************)
(* C17: in every reachable state of the market maker the number of active  *)
(* quotes it tracks is at most max_open_orders.                            *)
(***************************************************************************)
C17_ActiveQuotesCapped ==
    Len(mm.active_quotes) <= mm_config.max_open_orders

\* Four quotes were calculated and the posting loop stopped at the cap of
\* three.
C17_Witness ==
    /\ mm_config.max_open_orders = 3
    /\ Len(mm.active_quotes) = 3
    /\ Len(CalculateQuotes(mm_config, mm.post.mid_price)) = 4

(***************************************************************************)
(* C18: posting a quote and cancelling it before any fill detection runs   *)
(* leaves the YES, NO and daily fill totals unchanged, removes the quote   *)
(* from the active quotes and leaves its order ID in the cancelled-ID set. *)
(* Stated over every reachable state of the maker, for a quote on the      *)
(* market quoted last and every outcome of the cancelled-set cut.          *)
(***************************************************************************)
C18_PostThenCancel ==
    \A keep_newest \in BOOLEAN :
        LET q == [side |-> "YES", price |-> 46, size |-> 65, level |-> 0]
            id == mm_venue.next_id
            condition_id == IF mm.post.condition_id = 0 THEN 1
                            ELSE mm.post.condition_id
            posted == AfterPost(mm, q, id, condition_id)
            after == CancelAllForMarket(posted, condition_id, keep_newest)
        IN  /\ after.daily_fills_usd = mm.daily_fills_usd
            /\ after.yes_fills_usd = mm.yes_fills_usd
            /\ after.no_fills_usd = mm.no_fills_usd
            /\ \A k \in DOMAIN after.active_quotes :
                 after.active_quotes[k].order_id # id
            /\ id \in after.cancelled_order_ids

(***************************************************************************)
(* C15: each TradeRecord is reported as newly resolved by check_resolutions *)
(* at most once: over all passes, those still under way and those whose    *)
(* result the caller has consumed, its id is in at most one resolved list. *)
(***************************************************************************)
C15_ReportedResolvedOnce ==
    LET consumed(id) ==
            Cardinality({k \in DOMAIN pnl_log : pnl_log[k].trade_id = id})
        held(t, id) ==
            Cardinality({k \in DOMAIN task[t].resolved : task[t].resolved[k] = id})
    IN  \A id \in 1..MaxTrades :
           consumed(id) + held("main", id) + held("fivem", id) <= 1

(***************************************************************************)
(* C14 as stated: every StrategyDecision of the Signal Engine, from the    *)
(* main analysis and from the late-window variant, has confidence at most  *)
(* 0.92.                                                                   *)
(***************************************************************************)
C14_ConfidenceAtMost92 ==
    decision.confidence <= 9200

(***************************************************************************)
(* C14, amended: every StrategyDecision of the main analysis has           *)
(* confidence at most 0.92; every StrategyDecision of the late-window      *)
(* variant has confidence at most the max_confidence passed to it (0.95    *)
(* with the default LateWindowConfig), and reaches it for a drift of       *)
(* drift_scale_pct or more.                                                *)
(***************************************************************************)
C14_ConfidenceCaps ==
    /\ decision.engine = "main" => decision.confidence <= 9200
    /\ decision.engine = "late" =>
          /\ decision.confidence <= decision.max_confidence
          /\ (decision.inp.anchor_price > 0
               /\ decision.inp.current_price - decision.inp.anchor_price >= 125)
                => decision.confidence = decision.max_confidence

\* A main decision whose weighted score was above the cap: the anchor drift
\* and all four indicators point up at full strength.
C14_Witness ==
    /\ decision.engine = "main" /\ decision.confidence = 9200
    /\ decision.should_trade
    /\ \A k \in 1..4 : decision.inp.ind[k] = [direction |-> "up", strength |-> 100]

(***************************************************************************)
(* C23: for a limit order answered "live", after the wait the client       *)
(* requeries; a fill goes to the fill verification; an order still resting *)
(* is cancelled and a cancel that succeeds returns no trade; after a       *)
(* cancel that fails the client requeries once more, and when that requery *)
(* shows matched or filled the attempt proceeds to the fill verification,  *)
(* otherwise no trade is returned.                                         *)
(***************************************************************************)
C23_LiveOrderPath ==
    [][/\ po.pc = "live_wait" =>
            \/ po'.pc \in {"verify1", "verify2"} /\ po'.confirmed
            \/ po'.pc = "live_recheck" /\ ~po'.confirmed
            \/ po'.pc = "done" /\ po'.ret = "none" /\ ~po'.confirmed
       /\ po.pc = "live_recheck" =>
            IF po'.confirmed
            THEN po'.pc \in {"verify1", "verify2"}
            ELSE po'.pc = "done" /\ po'.ret = "none"]_vars

(***************************************************************************)
(* C24: in market mode one place_order call submits the GTC                *)
(* limit-with-slippage order at most once, and only after the fill-or-kill *)
(* order was rejected as not fully fillable; any other rejection of the    *)
(* fill-or-kill order returns no trade without a further submission; a     *)
(* call never submits more than two orders.                                *)
(***************************************************************************)
C24_GTCFallbackOnce ==
    order_type = "market" =>
        /\ po.posted \in {<<>>, <<"FOK">>, <<"FOK", "GTC">>}
        /\ Len(po.posted) = 2 => po.fok_rejected_thin_book
        /\ (/\ po.posted = <<"FOK">>
            /\ ~po.resp.success
            /\ po.resp.status \notin {"matched", "live"}
            /\ ~po.fok_rejected_thin_book)
              => po.pc = "done" /\ po.ret = "none"

\* The fill-or-kill order met a thin book, the GTC order went out once and
\* the call ended with a trade record.
C24_Witness ==
    /\ order_type = "market"
    /\ po.posted = <<"FOK", "GTC">>
    /\ po.fok_rejected_thin_book
    /\ po.pc = "done" /\ po.ret = "trade" /\ po.slipped

(***************************************************************************)
(* C27 as stated: can_trade (and can_trade_5m for the 5m engine) returns   *)
(* false while now is before cooldown-until; when the engine's consecutive *)
(* losses are at or above its streak cap it sets                           *)
(* cooldown-until = now + cooldown_minutes and returns false; it returns   *)
(* true only when none of the cooldown, daily-count, daily-loss,           *)
(* loss-streak and capital checks blocks.                                  *)
(***************************************************************************)
C27_GateChecks ==
    [][LET rm == ResetDailyIfNeeded(risk_manager, now)
           d == rm.daily
           after == risk_manager'.daily
           ok == api'.result = 1
       IN  /\ (api'.calls = api.calls + 1 /\ api'.op = "can_trade") =>
                LET cooldown == now < d.cooldown_until
                    count == d.trades >= Limits.max_daily_trades
                    loss == /\ Reference(rm) > 0
                            /\ (-Min(0, d.total_pnl)) * 100
                                 >= Limits.max_daily_loss_pct * Reference(rm)
                    streak == d.consecutive_losses >= Limits.max_consecutive_losses
                IN  /\ cooldown => ~ok
                    /\ streak =>
                         /\ ~ok
                         /\ after.cooldown_until =
                               now + Limits.loss_streak_cooldown_mins * 60
                    /\ ok => ~(cooldown \/ count \/ loss \/ streak
                                \/ rm.capital <= 0)
           /\ (api'.calls = api.calls + 1 /\ api'.op = "can_trade_5m") =>
                LET cooldown == now < d.cooldown_until_5m
                    count == d.trades_5m >= Limits.fivem_max_daily_trades
                    loss == /\ Reference(rm) > 0
                            /\ (-Min(0, d.pnl_5m)) * 100
                                 >= Limits.fivem_max_daily_loss_pct * Reference(rm)
                    streak == d.consecutive_losses_5m
                                 >= Limits.fivem_max_consecutive_losses
                IN  /\ cooldown => ~ok
                    /\ streak =>
                         /\ ~ok
                         /\ after.cooldown_until_5m =
                               now + Limits.fivem_cooldown_mins * 60
                    /\ ok => ~(cooldown \/ count \/ loss \/ streak
                                \/ rm.capital <= 0)]_vars

(***************************************************************************)
(* C27, amended: can_trade (and can_trade_5m) returns false while now is   *)
(* before cooldown-until; when the engine's consecutive losses are at or   *)
(* above its streak cap it returns false, and it sets                      *)
(* cooldown-until = now + cooldown_minutes when none of the checks made    *)
(* before the streak check (cooldown, daily count, the 5m budget, daily    *)
(* loss) has blocked; it returns true only when none of the cooldown,      *)
(* daily-count, daily-loss, loss-streak and capital checks blocks.         *)
(***************************************************************************)
C27_GateChecksInOrder ==
    [][LET rm == ResetDailyIfNeeded(risk_manager, now)
           d == rm.daily
           after == risk_manager'.daily
           ok == api'.result = 1
       IN  /\ (api'.calls = api.calls + 1 /\ api'.op = "can_trade") =>
                LET cooldown == now < d.cooldown_until
                    count == d.trades >= Limits.max_daily_trades
                    loss == /\ Reference(rm) > 0
                            /\ (-Min(0, d.total_pnl)) * 100
                                 >= Limits.max_daily_loss_pct * Reference(rm)
                    streak == d.consecutive_losses >= Limits.max_consecutive_losses
                IN  /\ cooldown => ~ok
                    /\ streak => ~ok
                    /\ (streak /\ ~(cooldown \/ count \/ (loss /\ rm.capital > 0))) =>
                         after.cooldown_until =
                            now + Limits.loss_streak_cooldown_mins * 60
                    /\ ok => ~(cooldown \/ count \/ loss \/ streak
                                \/ rm.capital <= 0)
           /\ (api'.calls = api.calls + 1 /\ api'.op = "can_trade_5m") =>
                LET cooldown == now < d.cooldown_until_5m
                    count == d.trades_5m >= Limits.fivem_max_daily_trades
                    budget == d.spent_5m * 100
                                 >= Reference(rm) * Limits.fivem_budget_pct
                    loss == /\ Reference(rm) > 0
                            /\ (-Min(0, d.pnl_5m)) * 100
                                 >= Limits.fivem_max_daily_loss_pct * Reference(rm)
                    streak == d.consecutive_losses_5m
                                 >= Limits.fivem_max_consecutive_losses
                IN  /\ cooldown => ~ok
                    /\ streak => ~ok
                    /\ (streak /\ ~(cooldown \/ count \/ budget \/ loss)) =>
                         after.cooldown_until_5m =
                            now + Limits.fivem_cooldown_mins * 60
                    /\ ok => ~(cooldown \/ count \/ loss \/ streak
                                \/ rm.capital <= 0)]_vars

\* can_trade_5m() was refused by the 5m cooldown alone: the streak counter
\* was cleared when the cooldown was set, and the day's count is below its
\* cap.
C27_Witness ==
    /\ api.op = "can_trade_5m" /\ api.result = 0
    /\ api.before.daily.date = Today(now)
    /\ now < api.before.daily.cooldown_until_5m
    /\ api.before.daily.consecutive_losses_5m = 0
    /\ api.before.daily.trades_5m < Limits.fivem_max_daily_trades

C30_ArbBackoff ==
    [][/\ consecutive_errors' # consecutive_errors =>
            \/ /\ consecutive_errors' = consecutive_errors + 1
               /\ backoff_until' =
                     now + Min(300, arb_config.poll_interval_secs
                                       * (2 ^ consecutive_errors'))
               /\ scan'.pc = "sleep"
               /\ scan'.wake = now + arb_config.poll_interval_secs
            \/ /\ consecutive_errors' = 0
               /\ scan.pc \in {"fetch", "exec", "orders"}
               /\ scan'.pc = "sleep"
       /\ (scan.pc \in {"fetch", "exec", "orders"} /\ scan'.pc = "sleep") =>
            \/ consecutive_errors' = consecutive_errors + 1
            \/ consecutive_errors' = 0
       /\ scan'.pc \in {"fetch", "exec", "orders"} =>
            /\ scan'.t0 >= backoff_until'
            /\ scan'.t0 = now']_vars

\* The second consecutive error of a scanner polling every 100s: 400s is cut
\* to the cap of 300s.
C30_Witness ==
    /\ consecutive_errors = 2
    /\ arb_config.poll_interval_secs * 4 > 300
    /\ backoff_until = now + 300
    /\ scan.pc = "sleep"

-----------------------------------------------------------------------------
(***************************************************************************)
(* C25: the stream task's reconnect delays, counted from the start or from *)
(* the last successful connect, are 5, 10, 20, 40, 80, 120, 120, ...       *)
(* seconds: the first is 5, each next one is twice the one before and none *)
(* exceeds 120; while the task is in its message loop, which it enters     *)
(* only through a successful connect, the reconnect backoff is 5 and the   *)
(* consecutive-failure counter is 0; a task asleep wakes when the delay    *)
(* it last drew has passed.                                                *)
(***************************************************************************)
C25_ReconnectBackoff ==
    /\ \A k \in 1..Len(rtds.delays) :
         rtds.delays[k] = IF k = 1 THEN 5
                          ELSE IF 2 * rtds.delays[k - 1] > 120 THEN 120
                          ELSE 2 * rtds.delays[k - 1]
    /\ rtds.pc = "stream" =>
         /\ rtds.reconnect_backoff = 5
         /\ rtds.consecutive_failures = 0
         /\ rtds.delays = <<>>
    /\ rtds.pc = "sleep" =>
         /\ rtds.delays # <<>>
         /\ rtds.wake - rtds.delays[Len(rtds.delays)] >= StreamStart
         /\ rtds.wake - rtds.delays[Len(rtds.delays)] <= now

\* Six failed attempts in a row brought the delay to its cap, and the
\* connect that followed succeeded and reset backoff and counter.
C25_Witness ==
    /\ rtds.pc = "stream" /\ rtds.ws = "open"
    /\ rtds.ticks * StreamStep >= 5 + 10 + 20 + 40 + 80
    /\ rtds.reconnect_backoff = 5 /\ rtds.consecutive_failures = 0
    /\ rtds.last_success = 0

(***************************************************************************)
(* C26: while the stream is running, an open connection on which no        *)
(* Chainlink message has arrived for more than 30 seconds is force-closed  *)
(* by the watchdog at its next look, at most 10 seconds later: no open     *)
(* connection of a running stream has been silent for more than 40         *)
(* seconds, whether it is the first connection or a later one.             *)
(***************************************************************************)
C26_WatchdogClosesEverySilence ==
    (rtds.running /\ rtds.pc = "stream" /\ rtds.ws = "open")
        => now - rtds.silent_since <= STALE_THRESHOLD + CHECK_INTERVAL

(***************************************************************************)
(* C28: filter_current_window(markets, W) called within the last 90        *)
(* seconds of the current W-minute window returns only markets whose       *)
(* window timestamp equals next_boundary, and called earlier only markets  *)
(* whose window timestamp equals current_boundary: for every input list,   *)
(* no market of the current window is returned within 90 seconds of its    *)
(* settling and no market of any other window is returned at all.          *)
(***************************************************************************)
C28_FilterReturnsTargetWindow ==
    window_filter.calls > 0 =>
        LET interval_secs == window_filter.interval_minutes * 60
            current_boundary ==
                window_filter.now - (window_filter.now % interval_secs)
            target == IF window_filter.now - current_boundary
                            >= interval_secs - 90
                      THEN current_boundary + interval_secs
                      ELSE current_boundary
        IN \A i \in 1..Len(window_filter.result) :
               window_filter.result[i] = target

(***************************************************************************)
(* C21: once the stop flag is set every loop observes it before its next   *)
(* action: no loop (main, 5m, arb scanner, market maker) starts an order   *)
(* submission after BTCPredictionBot.running went down, and no order       *)
(* submission in flight is cut short before it completes.                  *)
(***************************************************************************)
C21_StopObserved ==
    /\ shut.late = {}
    /\ shut.cut = {}

(***************************************************************************)
(* C22: each shared structure has exactly one writing task: the trade      *)
(* records of PolymarketClient were all appended by one task, and the      *)
(* RiskManager's daily stats were written at placement by one task only.   *)
(***************************************************************************)
C22_SingleWriter ==
    LET recs == archived_trades \o trade_records
        record_writers == {TaskOf(recs[i].engine) : i \in DOMAIN recs}
        risk_writers == {TaskOf(e) : e \in {x \in {"late", "fivem"} :
                                               placed[x] > 0}}
    IN  /\ Cardinality(record_writers) <= 1
        /\ Cardinality(risk_writers) <= 1

(***************************************************************************)
(* C32: in a market-maker cycle in which |yes_fills - no_fills| is at      *)
(* least max_imbalance, _post_quotes submits no order on the heavier side  *)
(* and tracks no new quote on it; the lighter side is still quoted.        *)
(***************************************************************************)
C32_HeavySideSkipped ==
    [][(mm.pc = "fee" /\ mm'.pc = "sleep") =>
          LET diff == mm.yes_fills_usd - mm.no_fills_usd
              heavy == IF diff > 0 THEN "YES" ELSE "NO"
              imbalanced ==
                 /\ diff # 0
                 /\ (IF diff > 0 THEN diff ELSE -diff)
                       >= mm_config.max_inventory_imbalance
          IN  imbalanced =>
                /\ \A o \in mm_log'.submitted \ mm_log.submitted :
                      o.side # heavy
                /\ \A k \in DOMAIN mm'.active_quotes :
                      (k > Len(mm.active_quotes)) =>
                         mm'.active_quotes[k].side
                            = (IF heavy = "YES" THEN "BUY_NO" ELSE "BUY_YES")
                /\ mm'.yes_fills_usd = mm.yes_fills_usd
                /\ mm'.no_fills_usd = mm.no_fills_usd]_vars

\* YES fills put the maker over the cap; the cycle that detected them has
\* posted a NO quote and no YES quote.
C32_Witness ==
    /\ mm.pc = "sleep" /\ mm.post.skip_side = "YES"
    /\ mm.yes_fills_usd - mm.no_fills_usd >= mm_config.max_inventory_imbalance
    /\ mm.active_quotes # <<>>
    /\ \A k \in DOMAIN mm.active_quotes :
          /\ mm.active_quotes[k].side = "BUY_NO"
          /\ mm.active_quotes[k].order_id \in
                {o.id : o \in mm_venue.open} \cup {mm_venue.next_id - 1}
    /\ \E k \in DOMAIN mm.active_quotes :
          mm.active_quotes[k].order_id = mm_venue.next_id - 1

(***************************************************************************)
(* C31: the fill-detection step marks an active quote filled exactly when  *)
(* its order id is absent from the venue's open orders of its market and   *)
(* from the cancelled-ID set: the fill totals grow by the value of these   *)
(* quotes and of no other, counted from zero when the day has rolled over. *)
(***************************************************************************)
C31_FilledIffAbsentAndNotCancelled ==
    [][(mm.pc = "ready" /\ mm'.cycle_count = mm.cycle_count + 1) =>
          LET reset == now - mm.day_start > 86400
              cancelled == IF reset THEN {} ELSE mm.cancelled_order_ids
              Gone(q) ==
                 /\ \A o \in mm_venue.open :
                       ~(o.id = q.order_id /\ o.condition_id = q.condition_id)
                 /\ q.order_id \notin cancelled
              GoneYes(q) == Gone(q) /\ q.side = "BUY_YES"
              GoneNo(q) == Gone(q) /\ q.side = "BUY_NO"
          IN  /\ mm'.yes_fills_usd =
                    (IF reset THEN 0 ELSE mm.yes_fills_usd)
                       + FillUsd(SelectSeq(mm.active_quotes, GoneYes))
              /\ mm'.no_fills_usd =
                    (IF reset THEN 0 ELSE mm.no_fills_usd)
                       + FillUsd(SelectSeq(mm.active_quotes, GoneNo))
              /\ \A k \in DOMAIN mm.active_quotes :
                    Gone(mm.active_quotes[k]) =>
                       \A j \in DOMAIN mm'.active_quotes :
                          mm'.active_quotes[j].order_id
                             # mm.active_quotes[k].order_id]_vars

(***************************************************************************)
(* C38: a market-maker cycle in which the open-orders lookup fails for the *)
(* market of every active quote marks none of them filled: the YES, NO and *)
(* daily fill totals are as the daily reset left them.                     *)
(***************************************************************************)
C38_FailedLookupMarksNothing ==
    [][(/\ mm.pc = "ready" /\ mm'.cycle_count = mm.cycle_count + 1
        /\ mm_log'.lookup_failed # {}
        /\ \A k \in DOMAIN mm.active_quotes :
              mm.active_quotes[k].condition_id \in mm_log'.lookup_failed) =>
          LET reset == now - mm.day_start > 86400
          IN  /\ mm'.yes_fills_usd = (IF reset THEN 0 ELSE mm.yes_fills_usd)
              /\ mm'.no_fills_usd = (IF reset THEN 0 ELSE mm.no_fills_usd)
              /\ mm'.daily_fills_usd
                    = (IF reset THEN 0 ELSE mm.daily_fills_usd)]_vars

(***************************************************************************)
(* C39: once stop() has been called the market maker passes no further     *)
(* order to place_maker_order, wherever its cycle was suspended.           *)
(***************************************************************************)
C39_NoOrderAfterStop ==
    [][(~mm.running) =>
          /\ mm_venue'.next_id = mm_venue.next_id
          /\ mm_log'.submitted = mm_log.submitted]_vars

(***************************************************************************)
(* C40: a market-maker cycle whose pre-close pull cancels quotes does not  *)
(* raise: it leaves no tracked quote on a known market within              *)
(* pull_before_close_secs of its end and goes on to discovery.             *)
(***************************************************************************)
C40_PullCompletes ==
    [][(/\ mm.pc = "ready" /\ mm'.cycle_count = mm.cycle_count + 1
        /\ mm_log'.pulled # {}) =>
          /\ mm'.pc = "discover"
          /\ \A k \in DOMAIN mm'.active_quotes :
                LET q == mm'.active_quotes[k]
                IN  ~(/\ q.condition_id \in mm'.known_markets
                      /\ EndTime(q.condition_id) - now
                            <= mm_config.pull_before_close_secs)]_vars

(***************************************************************************)
(* C33: get_price raises only when every source's latest price is older    *)
(* than 60 seconds: a call made while a stream buffer or a cached REST     *)
(* price is at most 60 seconds old returns a consensus, and a call made    *)
(* while none is raises.                                                   *)
(***************************************************************************)
C33_FailsOnlyWhenAllStale ==
    [][feed'.calls = feed.calls + 1 =>
          LET latest == [s \in Sources |->
                            IF s \in {"chainlink", "rtds_binance"}
                            THEN feed.buffer[s] ELSE feed'.last_prices[s]]
              recent == {s \in Sources :
                            /\ latest[s] # 0
                            /\ now - latest[s] <= CacheTolerance}
          IN  feed'.result.raised <=> recent = {}]_vars

(***************************************************************************)
(* C34 as stated: _is_in_entry_window is true exactly when now lies in     *)
(* [next_boundary - entry_lead_secs - entry_window_secs,                   *)
(*  next_boundary - entry_lead_secs], next_boundary being the next         *)
(* W-minute boundary strictly after now.                                   *)
(***************************************************************************)
C34_EntryWindowBeforeLead ==
    entry.calls > 0 =>
        LET secs == entry.interval * 60
            next_boundary == ((entry.now \div secs) + 1) * secs
        IN  entry.result <=>
               /\ next_boundary - Timing.entry_lead_secs
                     - Timing.entry_window_secs <= entry.now
               /\ entry.now <= next_boundary - Timing.entry_lead_secs

(***************************************************************************)
(* C34, amended: _is_in_entry_window is true exactly when now lies in      *)
(* [next_boundary - entry_lead_secs,                                       *)
(*  next_boundary - entry_lead_secs + entry_window_secs], next_boundary    *)
(* being the next W-minute boundary strictly after now.                    *)
(***************************************************************************)
C34_EntryWindowAfterLead ==
    entry.calls > 0 =>
        LET secs == entry.interval * 60
            next_boundary == ((entry.now \div secs) + 1) * secs
        IN  entry.result <=>
               /\ next_boundary - Timing.entry_lead_secs <= entry.now
               /\ entry.now <= next_boundary - Timing.entry_lead_secs
                                  + Timing.entry_window_secs

\* The call at 59:30 of the hour, the last second of the window before the
\* top of the hour, returned true.
C34_Witness ==
    /\ entry.calls > 0 /\ entry.result
    /\ entry.now % 3600 = 3600 - Timing.entry_lead_secs
                               + Timing.entry_window_secs

(***************************************************************************)
(* C35: once a loss-streak cooldown of the main engine has been set and    *)
(* its time has passed on the same UTC day, with the other checks of       *)
(* can_trade passing, a can_trade call of that day eventually returns      *)
(* true (or one of the other checks starts to fail that day).              *)
(***************************************************************************)
C35_CooldownEnds ==
    LET day == Today(RiskStart)
        d == risk_manager.daily
    IN  (/\ d.date = day /\ Today(now) = day
         /\ d.cooldown_until > 0 /\ now >= d.cooldown_until
         /\ OtherChecksPass(risk_manager))
        ~> (\/ /\ api.op = "can_trade" /\ api.result = 1 /\ api.today = day
            \/ /\ risk_manager.daily.date = day
               /\ ~OtherChecksPass(risk_manager))

(***************************************************************************)
(* C36: with the 5m loop disabled, every pending TradeRecord whose market  *)
(* has closed with a winner is eventually resolved and its PnL applied to  *)
(* the RiskManager, whatever the later 15m cycles decide.                  *)
(***************************************************************************)
C36_PendingEventuallyResolved ==
    \A id \in 1..MaxTrades :
       (/\ id <= Len(trade_records) + Len(archived_trades)
        /\ venue[id] # "open"
        /\ Lookup(trade_records, archived_trades, id).outcome = "pending")
       ~> (/\ id <= Len(trade_records) + Len(archived_trades)
           /\ Lookup(trade_records, archived_trades, id).outcome # "pending"
           /\ \E k \in DOMAIN pnl_log : pnl_log[k].trade_id = id)

(***************************************************************************)
(* C37: every late-window decision for a market is computed from the      *)
(* anchor captured for that market's own window, the window of the         *)
(* market's interval that ends at the market's end time; never from an     *)
(* anchor of a different window or interval.                               *)
(***************************************************************************)
C37_AnchorOfOwnWindow ==
    \A d \in sweep.decisions :
       /\ d.anchor.W = d.market.interval
       /\ d.anchor.boundary_time = d.market.end_ts - d.market.interval * 60

=============================================================================
